---- MODULE Spec2Model ----
(***************************************************************************)
(* Verification model of the stat-arb-lab processing core:                 *)
(*   - StandardPipeline            (research/processing/pipeline.py)       *)
(*   - MetadataRegistry            (processing/storage/metadata_registry)  *)
(*       fingerprints, the registry file, consistency, schema precision    *)
(*   - HybridAsofAligner           (processing/alignment/strategies.py)    *)
(*   - ValidationRules             (processing/validation/rules.py)        *)
(*   - PolarsValidator             (processing/validation/validator.py)    *)
(*   - the feature tiers           (transformation/returns.py, features/)  *)
(* Each component has its own specification over its own variables; the    *)
(* variables of the other components stay at their initial values.         *)
(***************************************************************************)
EXTENDS Integers, Sequences, FiniteSets, TLC

VARIABLES
    \* ---- StandardPipeline ----
    validator,        \* self.validator is configured (truthy)
    transformers,     \* len(self.transformers)
    storage,          \* self.storage is configured (truthy)
    pc,               \* position inside execute_multi_asset
    kwargs,           \* the **kwargs of the current run
    current_data,     \* the local current_data
    tidx,             \* loop index i of _execute_transformations
    steps_log,        \* self._steps_log
    execution_stats,  \* the "status" entry of self._execution_stats
    last_result,      \* self._last_result
    ret,              \* the value returned by the latest finished run
    calls,            \* history: collaborator invocations of the current run
    runs,             \* number of runs started on this instance
    \* ---- MetadataRegistry.generate_feature_hash on a pair of configurations ----
    cached_hashes,    \* self._cached_hashes of each registry instance
    cfg,              \* the two configuration dictionaries under comparison
    hres,             \* what generate_feature_hash last returned for each
    hfrom,            \* whether that answer came from the cache or was computed
    \* ---- MetadataRegistry on its storage directory ----
    clock,            \* datetime.now(): one tick per update_registry call
    dir,              \* the storage directory: file name -> inode (0: no such file)
    files,            \* inode -> file content, a sequence of written chunks
    wpc,              \* position of each registry instance inside update_registry
    wfd,              \* the inode its open temp file refers to
    woff,             \* chunks it has written so far
    wdata,            \* its registry_data
    wres,             \* what its latest update_registry call returned
    wbefore,          \* history: the entry on record when that call began
    attempted,        \* history: every registry_data an update_registry call built
    rpc,              \* position of the reader inside load_registry
    rfd,              \* the inode the reader has open
    rres,             \* what the latest load_registry call returned
    vrec,             \* the latest verify_consistency call and what it returned
    \* ---- MetadataRegistry.validate_schema_integrity ----
    schema_dict,      \* the schema under validation: column name and dtype pairs
    sres,             \* what validate_schema_integrity returned for it
    \* ---- HybridAsofAligner ----
    strategy,         \* self.strategy
    symbols,          \* list(data_map.keys())
    data_map,         \* symbol -> rows of its frame
    no_timestamp,     \* the symbols whose frame has no timestamp column
    akwargs,          \* the **kwargs of align
    aligned,          \* what align returned
    \* ---- PolarsValidator ----
    default_rules,    \* self.default_rules
    last_summary,     \* self.last_summary
    vclock,           \* time.time(): one tick per validate call
    vdata,            \* the data argument of the latest validate call
    voverrides,       \* its rules argument
    active_rules,     \* history: the active_rules its phases were given
    evaluated,        \* history: the phases it evaluated, in order
    scans,            \* history: the collect() calls it made
    vret,             \* what it returned
    \* ---- configuration entry points ----
    rules_obj,        \* the latest ValidationRules instance produced
    centry,           \* the entry point called last
    cinput,           \* the configuration it was given
    cout,             \* what its caller got: a value, an Err, or an exception
    \* ---- feature tiers ----
    tpipeline,        \* the tiers configured as transformers, in order
    tparams,          \* their constructor arguments
    tdata,            \* current_data of the transformer loop
    tbefore,          \* history: the frame the latest transform was given
    tpos,             \* transformers called so far
    tres,             \* what the latest transform returned
    \* ---- _standardize_frame of the two aligners ----
    std_strategy,     \* the aligner: "asof" (HybridAsofAligner) or "exact" (ExactTimeAligner)
    std_input,        \* the rows of the series entering the aligner
    std_out,          \* the frame _standardize_frame returned for it
    \* ---- ParquetStorageEngine.save ----
    save_n,           \* save calls made so far
    save_arg,         \* the data schema and feature_params of the latest call
    lake,             \* what write_parquet calls have put under base_path
    registry_entry,   \* the entry the registry has on record
    lake_before,      \* history: lake when the latest call began
    entry_before,     \* history: registry_entry when the latest call began
    save_trace,       \* history: the calls the latest save made, in order, with their outcome
    save_ret,         \* what the latest save returned
    \* ---- window resolution of the feature tiers ----
    window_str,       \* the duration string
    window_rows,      \* the row counts the two tiers resolved it to
    \* ---- the registry entry in full ----
    entry_clock,      \* datetime.now(): one tick per update_registry call
    entry_args,       \* the arguments of the latest update_registry call
    entry_res,        \* what it returned
    entry_file,       \* what load_registry returns: the entry in metadata.json
    entry_last        \* history: the registry_data of the latest successful commit

pipeVars == <<validator, transformers, storage, pc, kwargs, current_data, tidx,
              steps_log, execution_stats, last_result, ret, calls, runs>>

hashVars == <<cfg, hres, hfrom>>

fsVars == <<clock, dir, files, wpc, wfd, woff, wdata, wres, wbefore, attempted,
            rpc, rfd, rres, vrec>>

schemaVars == <<schema_dict, sres>>

alignVars == <<strategy, symbols, data_map, no_timestamp, akwargs, aligned>>

validatorVars == <<default_rules, last_summary, vclock, vdata, voverrides,
                   active_rules, evaluated, scans, vret>>

(* The components modelled after the aligner. *)
configVars == <<rules_obj, centry, cinput, cout>>

tierVars == <<tpipeline, tparams, tdata, tbefore, tpos, tres>>

stdVars == <<std_strategy, std_input, std_out>>

saveVars == <<save_n, save_arg, lake, registry_entry, lake_before, entry_before, save_trace, save_ret>>

windowVars == <<window_str, window_rows>>

entryVars == <<entry_clock, entry_args, entry_res, entry_file, entry_last>>

otherVars == <<validatorVars, configVars, tierVars, stdVars, saveVars, windowVars, entryVars>>

nonPipeVars == <<cached_hashes, hashVars, fsVars, schemaVars, alignVars, otherVars>>

(* What the registry's file operations leave alone besides the cache. *)
nonFsVars == <<pipeVars, hashVars, schemaVars, alignVars, otherVars>>

(* The orchestrator, the registry and the aligner together. *)
coreVars == <<pipeVars, cached_hashes, hashVars, fsVars, schemaVars, alignVars>>

vars == <<pipeVars, nonPipeVars>>

-----------------------------------------------------------------------------
(* Bounds *)
MaxTransformers == 2
MaxRuns == 2
MaxCommits == 2       \* update_registry calls
NChunks == 2          \* write() chunks of one serialised registry entry
MaxColumns == 2       \* columns of a schema
MaxRows == 3          \* rows of the input frames of one align call, in all
MaxValRows == 2       \* rows of a frame under validation
MaxValidations == 2   \* validate calls on one validator
MaxTiers == 2         \* transformers of a feature pipeline
MaxSaves == 2         \* save calls on one storage engine

-----------------------------------------------------------------------------
(* Result values (research/shared/result.py) *)
None == [tag |-> "None"]
Ok(v) == [tag |-> "Ok", value |-> v]
Err(e) == [tag |-> "Err", error |-> e]
is_ok(r) == r.tag = "Ok"
is_err(r) == r.tag = "Err"
unwrap(r) == r.value

(* What a collaborator call can do: return Ok, return Err, or raise. *)
Outcomes == {"ok", "err", "raise"}

(* A frame is abstracted by its lineage: where it came from and which      *)
(* transformers have been applied to it, in order.                         *)
Frame(src, applied) == [src |-> src, applied |-> applied]

(* The **kwargs of a run: the three skip flags the pipeline reads, and,    *)
(* under whatever key, a flag asking to skip one transformer (by its       *)
(* position in self.transformers): the pipeline reads no such key.         *)
KwargsSet == [skip_alignment : BOOLEAN, skip_validation : BOOLEAN, skip_storage : BOOLEAN,
              skip_transformers : {{}} \cup {{i} : i \in 1..MaxTransformers}]

-----------------------------------------------------------------------------
(* StandardPipeline *)

PipeInit ==
    /\ validator \in BOOLEAN
    /\ transformers \in 0..MaxTransformers
    /\ storage \in BOOLEAN
    /\ pc = "idle"
    /\ kwargs = [skip_alignment |-> FALSE, skip_validation |-> FALSE, skip_storage |-> FALSE,
                 skip_transformers |-> {}]
    /\ current_data = None
    /\ tidx = 0
    /\ steps_log = <<>>
    /\ execution_stats = "unset"
    /\ last_result = None
    /\ ret = None
    /\ calls = <<>>
    /\ runs = 0

(* The pipeline instance of the specifications that do not run it. *)
PipeIdle ==
    /\ PipeInit
    /\ ~validator
    /\ transformers = 0
    /\ ~storage

StepWithoutName(name, status) == [name |-> "step", status |-> status]

(* A record of self._steps_log: its name and status. *)
Step(name, status) == [name |-> name, status |-> status]

(* get_step_names() *)
get_step_names == [i \in 1..Len(steps_log) |-> steps_log[i].name]
Call(stage, i, outcome) == [stage |-> stage, i |-> i, outcome |-> outcome]

ExecuteMultiAssetKeepingLog(kw) ==
    /\ pc = "idle"
    /\ runs < MaxRuns
    /\ runs' = runs + 1
    /\ kwargs' = kw
    /\ steps_log' = steps_log
    /\ execution_stats' = "unset"
    /\ current_data' = None
    /\ tidx' = 0
    /\ calls' = <<>>
    /\ ret' = None
    /\ pc' = "alignment"
    /\ UNCHANGED <<validator, transformers, storage, last_result>>
    /\ UNCHANGED nonPipeVars

(* execute_multi_asset, lines 83-91: reset the per-run state. *)
ExecuteMultiAsset(kw) ==
    /\ pc = "idle"
    /\ runs < MaxRuns
    /\ runs' = runs + 1
    /\ kwargs' = kw
    /\ steps_log' = <<>>
    /\ execution_stats' = "unset"
    /\ current_data' = None
    /\ tidx' = 0
    /\ calls' = <<>>
    /\ ret' = None
    /\ pc' = "alignment"
    /\ UNCHANGED <<validator, transformers, storage, last_result>>
    /\ UNCHANGED nonPipeVars

(* The early return of a fail-fast exit: the stage's result is returned as *)
(* it is; _execution_stats and _last_result are not touched.               *)
ReturnEarly(result) ==
    /\ ret' = result
    /\ pc' = "idle"
    /\ UNCHANGED <<execution_stats, last_result>>

(* Where execute_multi_asset goes after a stage that succeeded. *)
NextStage(after, data) ==
    IF after = "alignment" /\ validator /\ data # None THEN "validation"
    ELSE IF after \in {"alignment", "validation"} /\ transformers > 0 /\ data # None
         THEN "transformation"
    ELSE IF after \in {"alignment", "validation", "transformation"} /\ storage /\ data # None
         THEN "storage"
    ELSE "finish"

(* Lines 135-147: an exception inside execute_multi_asset itself (such as  *)
(* unwrap() of an Err) ends the run as a critical failure.                 *)
CriticalFailure ==
    /\ ret' = Err(<<"pipeline", 0, "critical">>)
    /\ last_result' = Err(<<"pipeline", 0, "critical">>)
    /\ execution_stats' = "error"
    /\ pc' = "idle"

StageAbortsNeverForValidation(stage, result) == is_err(result) /\ stage # "validation"

(* The is_err() test after each critical stage (lines 95, 103, 110). *)
StageAborts(stage, result) == is_err(result)

Continue(stage, result) ==
    IF StageAborts(stage, result)
    THEN /\ ReturnEarly(result)
         /\ UNCHANGED current_data
    ELSE IF is_err(result)
    THEN /\ CriticalFailure
         /\ UNCHANGED current_data
    ELSE /\ current_data' = unwrap(result)
         /\ pc' = NextStage(stage, unwrap(result))
         /\ UNCHANGED <<ret, execution_stats, last_result>>

(* _execute_alignment *)
ExecuteAlignment(o) ==
    /\ pc = "alignment"
    /\ IF kwargs.skip_alignment
       THEN /\ o = "ok"
            /\ steps_log' = Append(steps_log, Step("alignment", "skipped"))
            /\ calls' = calls
            /\ Continue("alignment", Ok(Frame("raw", <<>>)))
       ELSE /\ calls' = Append(calls, Call("alignment", 0, o))
            /\ LET result == CASE o = "ok" -> Ok(Frame("aligned", <<>>))
                               [] o = "err" -> Err(<<"alignment", 0, "err">>)
                               [] o = "raise" -> Err(<<"alignment", 0, "raise">>)
                   status == CASE o = "ok" -> "success"
                               [] o = "err" -> "failed"
                               [] o = "raise" -> "error"
               IN /\ steps_log' = Append(steps_log, Step("alignment", status))
                  /\ Continue("alignment", result)
    /\ UNCHANGED <<validator, transformers, storage, kwargs, tidx, runs>>
    /\ UNCHANGED nonPipeVars

(* _execute_validation *)
ExecuteValidation(o) ==
    /\ pc = "validation"
    /\ IF kwargs.skip_validation
       THEN /\ o = "ok"
            /\ steps_log' = Append(steps_log, Step("validation", "skipped"))
            /\ calls' = calls
            /\ Continue("validation", Ok(current_data))
       ELSE /\ calls' = Append(calls, Call("validation", 0, o))
            /\ LET result == CASE o = "ok" -> Ok(current_data)
                               [] o = "err" -> Err(<<"validation", 0, "err">>)
                               [] o = "raise" -> Err(<<"validation", 0, "raise">>)
                   status == CASE o = "ok" -> "success"
                               [] o = "err" -> "failed"
                               [] o = "raise" -> "error"
               IN /\ steps_log' = Append(steps_log, Step("validation", status))
                  /\ Continue("validation", result)
    /\ UNCHANGED <<validator, transformers, storage, kwargs, tidx, runs>>
    /\ UNCHANGED nonPipeVars

(* One iteration i of the loop of _execute_transformations, and after the  *)
(* last one the success record and the return.                             *)
ExecuteTransformation(o) ==
    /\ pc = "transformation"
    /\ LET i == tidx + 1
           data == current_data
           applied == Frame(data.src, Append(data.applied, i))
       IN /\ calls' = Append(calls, Call("transformation", i, o))
          /\ CASE o = "ok" ->
                   IF i = transformers
                   THEN /\ steps_log' = Append(steps_log, Step("transformation", "success"))
                        /\ tidx' = 0
                        /\ Continue("transformation", Ok(applied))
                   ELSE /\ current_data' = applied
                        /\ tidx' = i
                        /\ UNCHANGED <<steps_log, pc, ret, execution_stats, last_result>>
               [] o = "err" ->
                   /\ steps_log' = Append(steps_log, Step("transformation", "failed"))
                   /\ tidx' = 0
                   /\ Continue("transformation", Err(<<"transformation", i, "err">>))
               [] o = "raise" ->
                   /\ steps_log' = Append(steps_log, Step("transformation", "error"))
                   /\ tidx' = 0
                   /\ Continue("transformation", Err(<<"transformation", i, "raise">>))
    /\ UNCHANGED <<validator, transformers, storage, kwargs, runs>>
    /\ UNCHANGED nonPipeVars

StorageFailureFailsTheRun(result) == TRUE

(* Whether a failed storage hand-off fails the run (lines 117-119: no). *)
StorageFailureAborts(result) == FALSE

(* _execute_storage, then lines 117-133 *)
ExecuteStorage(o) ==
    /\ pc = "storage"
    /\ LET result == IF kwargs.skip_storage THEN Ok("storage_skipped")
                     ELSE CASE o = "ok" -> Ok("path")
                            [] o = "err" -> Err(<<"storage", 0, "err">>)
                            [] o = "raise" -> Err(<<"storage", 0, "raise">>)
           status == IF kwargs.skip_storage THEN "skipped"
                     ELSE CASE o = "ok" -> "success"
                            [] o = "err" -> "failed"
                            [] o = "raise" -> "error"
       IN /\ kwargs.skip_storage => o = "ok"
          /\ calls' = IF kwargs.skip_storage THEN calls
                      ELSE Append(calls, Call("storage", 0, o))
          /\ steps_log' = Append(steps_log, Step("storage", status))
          /\ IF is_err(result) /\ StorageFailureAborts(result)
             THEN ReturnEarly(result)
             ELSE /\ pc' = "finish"
                  /\ UNCHANGED <<ret, execution_stats, last_result>>
    /\ UNCHANGED <<validator, transformers, storage, kwargs, current_data, tidx, runs>>
    /\ UNCHANGED nonPipeVars

(* Lines 121-133: final success. *)
Finish ==
    /\ pc = "finish"
    /\ execution_stats' = "success"
    /\ last_result' = Ok(current_data)
    /\ ret' = Ok(current_data)
    /\ pc' = "idle"
    /\ UNCHANGED <<validator, transformers, storage, kwargs, current_data, tidx,
                   steps_log, calls, runs>>
    /\ UNCHANGED nonPipeVars

PipeNext ==
    \/ \E kw \in KwargsSet : ExecuteMultiAsset(kw)
    \/ \E o \in Outcomes : ExecuteAlignment(o)
    \/ \E o \in Outcomes : ExecuteValidation(o)
    \/ \E o \in Outcomes : ExecuteTransformation(o)
    \/ \E o \in Outcomes : ExecuteStorage(o)
    \/ Finish

-----------------------------------------------------------------------------
(* Configuration dictionaries and their JSON form                          *)
(*                                                                         *)
(* A configuration is a Dict[str, Any]. A value is an int, a str, an       *)
(* object that json cannot encode (a Path, a datetime, ...) and that has a *)
(* str() form, or a dictionary of its own, whose keys are ints or strs.    *)
(* Strings are sequences of decimal digits, which is enough to tell        *)
(* "2" < "10" (false) from 2 < 10 (true). A dictionary is the sequence of  *)
(* its items in insertion order.                                           *)

PyInt(n) == [t |-> "int", n |-> n, s |-> <<>>, d |-> <<>>]
PyStr(s) == [t |-> "str", n |-> 0, s |-> s, d |-> <<>>]
PyObj(s) == [t |-> "obj", n |-> 0, s |-> s, d |-> <<>>]
PyDict(d) == [t |-> "dict", n |-> 0, s |-> <<>>, d |-> d]

Item(k, v) == [key |-> k, value |-> v]

(* The dictionaries that occur as values. *)
NestedDicts ==
    { <<Item(PyInt(2), PyInt(1))>>,
      <<Item(PyStr(<<2>>), PyInt(1))>>,
      <<Item(PyInt(2), PyInt(1)), Item(PyInt(10), PyInt(1))>>,
      <<Item(PyInt(10), PyInt(1)), Item(PyInt(2), PyInt(1))>>,
      <<Item(PyInt(2), PyInt(1)), Item(PyStr(<<2>>), PyInt(1))>> }

ConfigKeys == {PyStr(<<2>>), PyStr(<<1, 0>>)}
ConfigValues == {PyInt(1), PyStr(<<1>>), PyObj(<<1>>)} \cup {PyDict(d) : d \in NestedDicts}
ConfigItems == {Item(k, v) : k \in ConfigKeys, v \in ConfigValues}

(* A dict keeps insertion order and has no key twice. *)
IsDict(c) == \A i, j \in 1..Len(c) : i # j => c[i].key # c[j].key
Configs ==
    UNION {{c \in [1..n -> ConfigItems] : IsDict(c)} : n \in 0..Cardinality(ConfigKeys)}

(* str(n) of a non-negative int *)
RECURSIVE Str(_)
Str(n) == IF n < 10 THEN <<n>> ELSE Append(Str(n \div 10), n % 10)

(* a < b on str: lexicographic by code point *)
RECURSIVE StrLess(_, _)
StrLess(a, b) ==
    IF Len(b) = 0 THEN FALSE
    ELSE IF Len(a) = 0 THEN TRUE
    ELSE IF Head(a) # Head(b) THEN Head(a) < Head(b)
    ELSE StrLess(Tail(a), Tail(b))

(* a < b on dict keys of one type *)
KeyLess(a, b) == IF a.t = "int" THEN a.n < b.n ELSE StrLess(a.s, b.s)

(* sorted(dct.items()) raises TypeError when it compares an int with a str *)
MixedKeys(c) == \E i, j \in 1..Len(c) : c[i].key.t # c[j].key.t

(* sort_keys=True can sort the dictionary and every dictionary inside it *)
RECURSIVE Sortable(_)
Sortable(c) ==
    /\ ~MixedKeys(c)
    /\ \A i \in 1..Len(c) : c[i].value.t = "dict" => Sortable(c[i].value.d)

RECURSIVE Insert(_, _)
Insert(x, sorted) ==
    IF sorted = <<>> THEN <<x>>
    ELSE IF KeyLess(x.key, Head(sorted).key) THEN <<x>> \o sorted
    ELSE <<Head(sorted)>> \o Insert(x, Tail(sorted))

RECURSIVE InsertionSort(_)
InsertionSort(c) == IF c = <<>> THEN <<>> ELSE Insert(Head(c), InsertionSort(Tail(c)))

InsertionOrder(c) == c

(* sort_keys=True on the items of one dictionary *)
SortItems(c) == InsertionSort(c)

(* json's form of a key: an int key becomes its decimal string *)
JsonKey(k) == IF k.t = "int" THEN Str(k.n) ELSE k.s

JsonToken(quoted, s, d) == [quoted |-> quoted, s |-> s, d |-> d]

(* json's form of a dictionary and of a value; `default` (str) is applied  *)
(* to what json cannot encode.                                             *)
RECURSIVE JsonItems(_)
JsonItems(c) ==
    [i \in 1..Len(c) |->
        [k |-> JsonKey(c[i].key),
         v |-> LET v == c[i].value IN
               CASE v.t = "int" -> JsonToken(FALSE, Str(v.n), <<>>)
                 [] v.t = "str" -> JsonToken(TRUE, v.s, <<>>)
                 [] v.t = "obj" -> JsonToken(TRUE, v.s, <<>>)
                 [] v.t = "dict" -> JsonToken(FALSE, <<>>, JsonItems(SortItems(v.d)))]]

(* json.dumps(config, sort_keys=True, default=str), line 64 *)
DumpsSorted(c) ==
    IF ~Sortable(c) THEN [ok |-> FALSE, str |-> <<>>]
    ELSE [ok |-> TRUE, str |-> JsonItems(SortItems(c))]

(* hashlib.sha256(...).hexdigest(): taken to be collision-free *)
sha256(str) == [sha256 |-> str, computed |-> TRUE]

(* No hash: the place of a hash that was not computed. *)
NoHash == [sha256 |-> <<>>, computed |-> FALSE]

-----------------------------------------------------------------------------
(* MetadataRegistry.generate_feature_hash *)

CacheLimit == 100

Raised == [tag |-> "Raise", hash |-> NoHash]
Hashed(h) == [tag |-> "Hash", hash |-> h]

InCache(cache, str) == \E e \in cache : e.str = str
CacheGet(cache, str) == (CHOOSE e \in cache : e.str = str).hash

(* The value returned (or the ValueError raised), where it came from, and  *)
(* the cache afterwards.                                                   *)
GenerateFeatureHash(cache, c) ==
    LET d == DumpsSorted(c) IN
    IF ~d.ok THEN [res |-> Raised, from |-> "raise", cache |-> cache]
    ELSE IF InCache(cache, d.str)
    THEN [res |-> Hashed(CacheGet(cache, d.str)), from |-> "cache", cache |-> cache]
    ELSE [res |-> Hashed(sha256(d.str)), from |-> "fresh",
          cache |-> IF Cardinality(cache) < CacheLimit
                    THEN cache \cup {[str |-> d.str, hash |-> sha256(d.str)]}
                    ELSE cache]

Instances == {1, 2}

HashIdle ==
    /\ cached_hashes = [w \in Instances |-> {}]
    /\ cfg = <<>>
    /\ hres = <<>>
    /\ hfrom = <<>>

HashInit ==
    /\ cached_hashes = [w \in Instances |-> {}]
    /\ cfg \in Configs \X Configs
    /\ hres = <<None, None>>
    /\ hfrom = <<"none", "none">>

(* registry.generate_feature_hash(cfg[i]) on registry instance 1 *)
HashConfig(i) ==
    LET r == GenerateFeatureHash(cached_hashes[1], cfg[i]) IN
    /\ hres' = [hres EXCEPT ![i] = r.res]
    /\ hfrom' = [hfrom EXCEPT ![i] = r.from]
    /\ cached_hashes' = [cached_hashes EXCEPT ![1] = r.cache]
    /\ UNCHANGED cfg
    /\ UNCHANGED <<pipeVars, fsVars, schemaVars, alignVars, otherVars>>

HashNext == \E i \in {1, 2} : HashConfig(i)

-----------------------------------------------------------------------------
(* The registry file and its JSON content *)

MetadataFile == "metadata.json"

WriteInPlace == "metadata.json"

(* temp_file = self.metadata_file.with_suffix('.tmp'), line 115 *)
TempFile == "metadata.tmp"

FileNames == {"metadata.json", "metadata.tmp"}

(* The parameter dictionaries the registry is driven with. *)
RegistryParams ==
    { <<>>,
      <<Item(PyStr(<<2>>), PyInt(1))>>,
      <<Item(PyStr(<<2>>), PyStr(<<1>>))>>,
      <<Item(PyStr(<<2>>), PyObj(<<1>>))>>,
      <<Item(PyStr(<<1, 0>>), PyInt(1)), Item(PyStr(<<2>>), PyInt(1))>>,
      <<Item(PyStr(<<2>>), PyDict(<<Item(PyInt(2), PyInt(1)), Item(PyInt(10), PyInt(1))>>))>>,
      <<Item(PyStr(<<2>>), PyDict(<<Item(PyInt(2), PyInt(1)), Item(PyStr(<<2>>), PyInt(1))>>))>> }

NoData == [last_update |-> 0, feature_hash |-> NoHash, feature_params |-> <<>>]

(* registry_data, lines 99-109, without the fields that are copied from    *)
(* the arguments as they are; additional_metadata is None, as in           *)
(* ParquetEngine.save.                                                     *)
RegistryData(now, feature_hash, feature_params) ==
    [last_update |-> now, feature_hash |-> feature_hash, feature_params |-> feature_params]

(* What json.load gives back for a dict that json.dump wrote: every key,   *)
(* at any depth, is a string; the items keep their order.                  *)
RECURSIVE JsonRoundTrip(_)
JsonRoundTrip(c) ==
    [i \in 1..Len(c) |->
        Item(PyStr(JsonKey(c[i].key)),
             IF c[i].value.t = "dict" THEN PyDict(JsonRoundTrip(c[i].value.d))
             ELSE c[i].value)]

(* json.dump without `default` raises TypeError on a value it cannot encode *)
RECURSIVE Encodable(_)
Encodable(c) ==
    \A i \in 1..Len(c) :
        /\ c[i].value.t # "obj"
        /\ c[i].value.t = "dict" => Encodable(c[i].value.d)

(* The k-th chunk json.dump writes for registry_data: last_update lies in  *)
(* the first chunk, feature_hash and feature_params in the last.           *)
Chunk(k, data) ==
    [k |-> k,
     last_update |-> IF k = 1 THEN data.last_update ELSE 0,
     feature_hash |-> IF k = NChunks THEN data.feature_hash ELSE NoHash,
     feature_params |-> IF k = NChunks THEN JsonRoundTrip(data.feature_params) ELSE <<>>]

(* A gap left by a write beyond the end of a truncated file. *)
Hole == [k |-> 0, last_update |-> 0, feature_hash |-> NoHash, feature_params |-> <<>>]

(* json.dump(registry_data, f, indent=2, ensure_ascii=False), complete *)
Serialise(data) == [k \in 1..NChunks |-> Chunk(k, data)]

(* write() of one chunk at chunk offset off *)
WriteAt(content, off, chunk) ==
    [k \in 1..(IF off + 1 > Len(content) THEN off + 1 ELSE Len(content)) |->
        IF k = off + 1 THEN chunk
        ELSE IF k <= Len(content) THEN content[k]
        ELSE Hole]

(* json.load: the text parses when every chunk is in its place *)
Parses(content) ==
    /\ Len(content) = NChunks
    /\ \A k \in 1..NChunks : content[k].k = k

Entry(content) ==
    [last_update |-> content[1].last_update,
     feature_hash |-> content[NChunks].feature_hash,
     feature_params |-> content[NChunks].feature_params]

(* The entry a complete, undisturbed commit of data puts on record. *)
EntryOf(data) == Entry(Serialise(data))

NotFound == [tag |-> "Err", error |-> "Metadata not found"]
LoadFailed == [tag |-> "Err", error |-> "Registry load failed"]

(* load_registry on the content of the file it opened, lines 164-171 *)
LoadResult(content) == IF Parses(content) THEN Ok(Entry(content)) ELSE LoadFailed

(* load_registry as one step, lines 158-171 *)
LoadRegistry(d, f) ==
    IF d[MetadataFile] = 0 THEN NotFound ELSE LoadResult(f[d[MetadataFile]])

(* Path.replace: rename src onto dst *)
Rename(d, src, dst) ==
    IF src = dst THEN d ELSE [d EXCEPT ![dst] = d[src], ![src] = 0]

FsIdle ==
    /\ clock = 0
    /\ dir = [n \in FileNames |-> 0]
    /\ files = <<>>
    /\ wpc = [w \in Instances |-> "idle"]
    /\ wfd = [w \in Instances |-> 0]
    /\ woff = [w \in Instances |-> 0]
    /\ wdata = [w \in Instances |-> NoData]
    /\ wres = [w \in Instances |-> None]
    /\ wbefore = [w \in Instances |-> NotFound]
    /\ attempted = {}
    /\ rpc = "idle"
    /\ rfd = 0
    /\ rres = None
    /\ vrec = None

(* MetadataRegistry.__init__ on an empty storage directory *)
RegistryInit ==
    /\ cached_hashes = [w \in Instances |-> {}]
    /\ cfg = <<>>
    /\ hres = <<>>
    /\ hfrom = <<>>
    /\ FsIdle

(* open(temp_file, 'w'), line 116: the file is created, or truncated if it *)
(* exists; the directory, the files and the inode opened.                  *)
OpenTemp(d, f) ==
    IF d[TempFile] = 0
    THEN [dir |-> [d EXCEPT ![TempFile] = Len(f) + 1],
          files |-> Append(f, <<>>),
          fd |-> Len(f) + 1]
    ELSE [dir |-> d,
          files |-> [f EXCEPT ![d[TempFile]] = <<>>],
          fd |-> d[TempFile]]

(* update_registry, lines 95-116: fingerprint, build registry_data, open   *)
(* the temp file for writing.                                              *)
UpdateRegistry(w, p) ==
    /\ wpc[w] = "idle"
    /\ clock < MaxCommits
    /\ LET h == GenerateFeatureHash(cached_hashes[w], p)
           data == RegistryData(clock + 1, h.res.hash, p)
           o == OpenTemp(dir, files)
       IN /\ cached_hashes' = [cached_hashes EXCEPT ![w] = h.cache]
          /\ clock' = clock + 1
          /\ wbefore' = [wbefore EXCEPT ![w] = LoadRegistry(dir, files)]
          /\ IF h.res = Raised
             THEN /\ wres' = [wres EXCEPT ![w] = Err("Metadata Registry Error")]
                  /\ wdata' = [wdata EXCEPT ![w] = NoData]
                  /\ UNCHANGED <<dir, files, wpc, wfd, woff, attempted>>
             ELSE /\ wres' = [wres EXCEPT ![w] = None]
                  /\ wdata' = [wdata EXCEPT ![w] = data]
                  /\ attempted' = attempted \cup {data}
                  /\ wpc' = [wpc EXCEPT ![w] = "writing"]
                  /\ woff' = [woff EXCEPT ![w] = 0]
                  /\ dir' = o.dir
                  /\ files' = o.files
                  /\ wfd' = [wfd EXCEPT ![w] = o.fd]
    /\ UNCHANGED <<rpc, rfd, rres, vrec>>
    /\ UNCHANGED nonFsVars

(* json.dump, line 117: the next chunk reaches the file, unless write()    *)
(* fails (ioerr) or the chunk holds a value json cannot encode; then the   *)
(* with block closes the file and the call returns Err (lines 126-128).    *)
(* After the last chunk the file is closed.                                *)
WriteChunk(w, ioerr) ==
    /\ wpc[w] = "writing"
    /\ LET k == woff[w] + 1 IN
       IF ioerr \/ (k = NChunks /\ ~Encodable(wdata[w].feature_params))
       THEN /\ wres' = [wres EXCEPT ![w] = Err("Metadata Registry Error")]
            /\ wpc' = [wpc EXCEPT ![w] = "idle"]
            /\ wfd' = [wfd EXCEPT ![w] = 0]
            /\ UNCHANGED <<files, woff>>
       ELSE /\ files' = [files EXCEPT ![wfd[w]] = WriteAt(@, woff[w], Chunk(k, wdata[w]))]
            /\ woff' = [woff EXCEPT ![w] = k]
            /\ wpc' = [wpc EXCEPT ![w] = IF k = NChunks THEN "closed" ELSE "writing"]
            /\ wfd' = [wfd EXCEPT ![w] = IF k = NChunks THEN 0 ELSE @]
            /\ UNCHANGED wres
    /\ UNCHANGED <<clock, dir, wdata, wbefore, attempted, rpc, rfd, rres, vrec>>
    /\ UNCHANGED <<cached_hashes, nonFsVars>>

(* temp_file.replace(self.metadata_file), lines 119-124; FileNotFoundError *)
(* when the temp file is gone gives Err (lines 126-128).                   *)
Replace(w) ==
    /\ wpc[w] = "closed"
    /\ IF dir[TempFile] = 0
       THEN /\ wres' = [wres EXCEPT ![w] = Err("Metadata Registry Error")]
            /\ UNCHANGED dir
       ELSE /\ dir' = Rename(dir, TempFile, MetadataFile)
            /\ wres' = [wres EXCEPT ![w] = Ok("None")]
    /\ wpc' = [wpc EXCEPT ![w] = "idle"]
    /\ UNCHANGED <<clock, files, wfd, woff, wdata, wbefore, attempted, rpc, rfd, rres, vrec>>
    /\ UNCHANGED <<cached_hashes, nonFsVars>>

(* The process dies inside update_registry; what it wrote stays in the     *)
(* file. A new process starts with a fresh registry instance.              *)
Crash(w) ==
    /\ wpc[w] \in {"writing", "closed"}
    /\ wpc' = [wpc EXCEPT ![w] = "idle"]
    /\ wfd' = [wfd EXCEPT ![w] = 0]
    /\ wres' = [wres EXCEPT ![w] = [tag |-> "Crashed"]]
    /\ cached_hashes' = [cached_hashes EXCEPT ![w] = {}]
    /\ UNCHANGED <<clock, dir, files, woff, wdata, wbefore, attempted, rpc, rfd, rres, vrec>>
    /\ UNCHANGED nonFsVars

(* load_registry, lines 161-164: exists() and open() *)
LoadOpen ==
    /\ rpc = "idle"
    /\ IF dir[MetadataFile] = 0
       THEN /\ rres' = NotFound
            /\ UNCHANGED <<rpc, rfd>>
       ELSE /\ rfd' = dir[MetadataFile]
            /\ rpc' = "opened"
            /\ rres' = None
    /\ UNCHANGED <<clock, dir, files, wpc, wfd, woff, wdata, wres, wbefore, attempted, vrec>>
    /\ UNCHANGED <<cached_hashes, nonFsVars>>

(* load_registry, lines 165-171: json.load of the open file *)
LoadRead ==
    /\ rpc = "opened"
    /\ rres' = LoadResult(files[rfd])
    /\ rpc' = "idle"
    /\ rfd' = 0
    /\ UNCHANGED <<clock, dir, files, wpc, wfd, woff, wdata, wres, wbefore, attempted, vrec>>
    /\ UNCHANGED <<cached_hashes, nonFsVars>>

(* update_registry as one uninterrupted call, lines 95-128 *)
UpdateRegistryCall(w, p) ==
    /\ \A v \in Instances : wpc[v] = "idle"
    /\ clock < MaxCommits
    /\ LET h == GenerateFeatureHash(cached_hashes[w], p)
           data == RegistryData(clock + 1, h.res.hash, p)
           o == OpenTemp(dir, files)
           n == IF Encodable(p) THEN NChunks ELSE NChunks - 1
       IN /\ cached_hashes' = [cached_hashes EXCEPT ![w] = h.cache]
          /\ clock' = clock + 1
          /\ wbefore' = [wbefore EXCEPT ![w] = LoadRegistry(dir, files)]
          /\ IF h.res = Raised
             THEN /\ wres' = [wres EXCEPT ![w] = Err("Metadata Registry Error")]
                  /\ wdata' = [wdata EXCEPT ![w] = NoData]
                  /\ UNCHANGED <<dir, files, woff, attempted>>
             ELSE /\ wdata' = [wdata EXCEPT ![w] = data]
                  /\ attempted' = attempted \cup {data}
                  /\ woff' = [woff EXCEPT ![w] = n]
                  /\ files' = [o.files EXCEPT ![o.fd] = SubSeq(Serialise(data), 1, n)]
                  /\ IF Encodable(p)
                     THEN /\ dir' = Rename(o.dir, TempFile, MetadataFile)
                          /\ wres' = [wres EXCEPT ![w] = Ok("None")]
                     ELSE /\ dir' = o.dir
                          /\ wres' = [wres EXCEPT ![w] = Err("Metadata Registry Error")]
    /\ vrec' = None
    /\ UNCHANGED <<wpc, wfd, rpc, rfd, rres>>
    /\ UNCHANGED nonFsVars

(* The expected_params argument of verify_consistency: None or a dict. *)
NoExpected == [given |-> FALSE, params |-> <<>>]
Expected(c) == [given |-> TRUE, params |-> c]

Verified(q, e, res) == [tag |-> "Verify", current |-> q, expected |-> e, res |-> res]

(* verify_consistency(current_params, expected_params), lines 173-196: the *)
(* value returned and the cache afterwards.                                *)
VerifyConsistencyResult(cache, d, f, q, e) ==
    LET registry_res == LoadRegistry(d, f)
        expected_params == IF e.given THEN e.params ELSE unwrap(registry_res).feature_params
        current == GenerateFeatureHash(cache, q)
        expected == GenerateFeatureHash(current.cache, expected_params)
    IN IF ~e.given /\ is_err(registry_res)
       THEN [res |-> Err("Consistency check failed"), cache |-> cache]
       ELSE IF current.res = Raised
       THEN [res |-> Err("Consistency verification error"), cache |-> cache]
       ELSE IF expected.res = Raised
       THEN [res |-> Err("Consistency verification error"), cache |-> current.cache]
       ELSE [res |-> Ok(current.res.hash = expected.res.hash), cache |-> expected.cache]

VerifyConsistency(w, q, e) ==
    /\ \A v \in Instances : wpc[v] = "idle"
    /\ LET r == VerifyConsistencyResult(cached_hashes[w], dir, files, q, e)
       IN /\ vrec' = Verified(q, e, r.res)
          /\ cached_hashes' = [cached_hashes EXCEPT ![w] = r.cache]
    /\ UNCHANGED <<clock, dir, files, wpc, wfd, woff, wdata, wres, wbefore, attempted,
                   rpc, rfd, rres>>
    /\ UNCHANGED nonFsVars

ExpectedParams == {NoExpected} \cup {Expected(c) : c \in RegistryParams}

(* One pipeline run after another commits and verifies. *)
ConsistencyNext ==
    \/ \E p \in RegistryParams : UpdateRegistryCall(1, p)
    \/ \E q \in RegistryParams, e \in ExpectedParams : VerifyConsistency(1, q, e)

(* One process at a time uses the storage path; it may crash and restart. *)
RegistryNext ==
    \/ \E p \in RegistryParams : UpdateRegistry(1, p)
    \/ \E ioerr \in BOOLEAN : WriteChunk(1, ioerr)
    \/ Replace(1)
    \/ Crash(1)
    \/ LoadOpen
    \/ LoadRead

(* Two pipeline runs share the storage path. *)
ConcurrentNext ==
    \/ \E w \in Instances : \E p \in RegistryParams : UpdateRegistry(w, p)
    \/ \E w \in Instances, ioerr \in BOOLEAN : WriteChunk(w, ioerr)
    \/ \E w \in Instances : Replace(w)
    \/ LoadOpen
    \/ LoadRead

-----------------------------------------------------------------------------
(* MetadataRegistry.validate_schema_integrity                              *)
(*                                                                         *)
(* Column names and str(dtype) are sequences of characters.                *)

SensitivePrefixes ==
    { <<"l", "o", "g", "_">>, <<"r", "e", "t", "_">>, <<"v", "o", "l", "_">>,
      <<"c", "o", "r", "r", "_">>, <<"b", "e", "t", "a", "_">>,
      <<"s", "p", "r", "e", "a", "d", "_">>,
      <<"z", "_", "s", "c", "o", "r", "e", "_">> }

Float64Indicators == { <<"f", "l", "o", "a", "t", "6", "4">>, <<"f", "6", "4">> }

Float64 == <<"F", "l", "o", "a", "t", "6", "4">>
Float32 == <<"F", "l", "o", "a", "t", "3", "2">>
Int64 == <<"I", "n", "t", "6", "4">>
ListOf(dtype) == <<"L", "i", "s", "t", "(">> \o dtype \o <<")">>

(* str(dtype) of the column types a schema is built from *)
Dtypes == {Float64, Float32, Int64, ListOf(Float64), ListOf(Float32)}

ColumnNames ==
    { <<"l", "o", "g", "_", "a">>, <<"z", "_", "s", "c", "o", "r", "e", "_", "a">>,
      <<"r", "e", "t", "_", "a">>, <<"t", "s">>, <<"b", "l", "o", "g", "_", "a">> }

Column(col, dtype) == [col |-> col, dtype |-> dtype]

Schemas ==
    UNION {{c \in [1..n -> {Column(col, dtype) : col \in ColumnNames, dtype \in Dtypes}] :
                \A i, j \in 1..n : i # j => c[i].col # c[j].col} : n \in 0..MaxColumns}

(* str.startswith *)
StartsWith(str, prefix) ==
    /\ Len(str) >= Len(prefix)
    /\ SubSeq(str, 1, Len(prefix)) = prefix

(* sub in str *)
Contains(str, sub) ==
    \E i \in 0..(Len(str) - Len(sub)) : SubSeq(str, i + 1, i + Len(sub)) = sub

(* str.lower *)
Lower(str) ==
    [i \in 1..Len(str) |->
        CASE str[i] = "F" -> "f"
          [] str[i] = "I" -> "i"
          [] str[i] = "L" -> "l"
          [] str[i] = "H" -> "h"
          [] str[i] = "D" -> "d"
          [] str[i] = "W" -> "w"
          [] OTHER -> str[i]]

is_sensitive(col) == \E prefix \in SensitivePrefixes : StartsWith(col, prefix)

is_float64(dtype) == \E indicator \in Float64Indicators : Contains(Lower(dtype), indicator)

(* violations, in the order of the schema's items *)
Violations(schema) ==
    SelectSeq(schema, LAMBDA c : is_sensitive(c.col) /\ ~is_float64(c.dtype))

ValidateSchemaIntegrityResult(schema) ==
    IF Violations(schema) # <<>>
    THEN Err([i \in 1..Len(Violations(schema)) |-> Violations(schema)[i].col])
    ELSE Ok("None")

SchemaIdle ==
    /\ schema_dict = <<>>
    /\ sres = Ok("None")

SchemaInit ==
    /\ schema_dict \in Schemas
    /\ sres = None

ValidateSchemaIntegrity ==
    /\ sres = None
    /\ sres' = ValidateSchemaIntegrityResult(schema_dict)
    /\ UNCHANGED schema_dict
    /\ UNCHANGED <<pipeVars, cached_hashes, hashVars, fsVars, alignVars, otherVars>>

SchemaNext == ValidateSchemaIntegrity

-----------------------------------------------------------------------------
(* HybridAsofAligner                                                       *)
(*                                                                         *)
(* An input frame has a timestamp column and one price column, close. A    *)
(* cell is null or holds a value; a value is identified by the symbol and  *)
(* the position of the input row it comes from. Timestamps and the         *)
(* tolerance are counted in bars. The datatime column that                 *)
(* _standardize_frame derives from timestamp is left out. A frame may lack *)
(* the timestamp column; its rows are then not represented.                *)

Tolerance == 1

Timestamps == {0, 1, 2}

Null == [null |-> TRUE, symbol |-> "", row |-> 0]
Value(symbol, row) == [null |-> FALSE, symbol |-> symbol, row |-> row]

InputRows == [timestamp : Timestamps, null : BOOLEAN]
Frames(n) == [1..n -> InputRows]

AllSymbols == {"BTC", "DOGE"}
NoRows == [s \in AllSymbols |-> <<>>]

(* The data_map arguments: no symbol, one symbol, two symbols, with at     *)
(* most MaxRows rows in all.                                               *)
DataMaps ==
    {[symbols |-> <<>>, data_map |-> NoRows]}
    \cup UNION {{[symbols |-> <<"BTC">>, data_map |-> [NoRows EXCEPT !["BTC"] = b]] :
                    b \in Frames(n)} : n \in 0..MaxRows}
    \cup UNION {UNION {{[symbols |-> <<"BTC", "DOGE">>,
                         data_map |-> [NoRows EXCEPT !["BTC"] = b, !["DOGE"] = d]] :
                            b \in Frames(n), d \in Frames(m)} : m \in 0..(MaxRows - n)} :
                    n \in 0..MaxRows}

(* The strategies _validate_constructor lets through. *)
ValidStrategies == {"backward", "foward"}

AlignKwargs == [strict : {"unset", "False"}, anchor : {"unset", "DOGE"}]

(* The aligners and calls exercised: the default strategy with every       *)
(* kwargs, the other strategy with none.                                   *)
AlignCalls ==
    {[strategy |-> "backward", kwargs |-> kw] : kw \in AlignKwargs}
    \cup {[strategy |-> st, kwargs |-> [strict |-> "unset", anchor |-> "unset"]] :
              st \in ValidStrategies}

(* A column name: the input column, the symbol of its suffix, and the      *)
(* suffix join_asof adds to a right-hand column whose name is taken.       *)
Col(name, symbol, right) == <<name, symbol, right>>

LazyFrame(columns, rows) == [columns |-> columns, rows |-> rows]
Row(timestamp, cells) == [timestamp |-> timestamp, cells |-> cells]

(* The frame of a symbol as align receives it. *)
InputFrame(symbol, rows) ==
    LazyFrame({Col("close", "", "")},
              [i \in 1..Len(rows) |->
                  Row(rows[i].timestamp,
                      Col("close", "", "") :>
                          (IF rows[i].null THEN Null ELSE Value(symbol, i)))])

IsSorted(rows) == \A i \in 1..(Len(rows) - 1) : rows[i].timestamp <= rows[i + 1].timestamp

(* sort("timestamp"): rows in timestamp order; the order of rows with the  *)
(* same timestamp is the engine's choice.                                  *)
Sorted(rows) ==
    LET n == Len(rows)
        perms == {p \in [1..n -> 1..n] : \A i, j \in 1..n : i # j => p[i] # p[j]}
    IN {r \in {[i \in 1..n |-> rows[p[i]]] : p \in perms} : IsSorted(r)}

KeepAll(rows) == rows

(* unique(subset=["timestamp"], keep="last") of sorted rows *)
Unique(rows) ==
    LET last(i) == i = Len(rows) \/ rows[i + 1].timestamp # rows[i].timestamp
        RECURSIVE keep(_)
        keep(i) == IF i > Len(rows) THEN <<>>
                   ELSE IF last(i) THEN <<rows[i]>> \o keep(i + 1)
                   ELSE keep(i + 1)
    IN keep(1)

(* _standardize_frame: the frames it can return *)
StandardizeFrame(lf) == {LazyFrame(lf.columns, Unique(r)) : r \in Sorted(lf.rows)}

(* The alias of lines 163-169 and 194-200: every column but timestamp gets *)
(* the symbol's suffix.                                                    *)
Suffixed(lf, symbol) ==
    LazyFrame({Col(c[1], symbol, c[3]) : c \in lf.columns},
              [i \in 1..Len(lf.rows) |->
                  Row(lf.rows[i].timestamp,
                      [c \in {Col(k[1], symbol, k[3]) : k \in lf.columns} |->
                          lf.rows[i].cells[Col(c[1], "", c[3])]])])

NoTolerance(left, right) == TRUE

(* tolerance=self.tolerance: the keys are at most the tolerance apart *)
WithinTolerance(left, right) == left - right <= Tolerance

(* The right-hand rows a backward join can match with key t: those with    *)
(* the greatest key at or before t, if within tolerance.                   *)
BackwardMatches(t, right_rows) ==
    {j \in 1..Len(right_rows) :
        /\ right_rows[j].timestamp <= t
        /\ \A k \in 1..Len(right_rows) :
              right_rows[k].timestamp <= t => right_rows[k].timestamp <= right_rows[j].timestamp
        /\ WithinTolerance(t, right_rows[j].timestamp)}

(* The name a right-hand column gets in the joined frame. *)
JoinedName(columns, c) == IF c \in columns THEN Col(c[1], c[2], "_right") ELSE c

(* base_lf.join_asof(right, on="timestamp", strategy="backward",           *)
(* tolerance=...): every left row is kept.                                 *)
JoinAsof(base_lf, right) ==
    LET added == {JoinedName(base_lf.columns, c) : c \in right.columns}
        source(n) == CHOOSE c \in right.columns : JoinedName(base_lf.columns, c) = n
        cell(t, n) ==
            LET m == BackwardMatches(t, right.rows)
            IN IF m = {} THEN Null
               ELSE right.rows[CHOOSE j \in m : \A k \in m : k <= j].cells[source(n)]
    IN LazyFrame(base_lf.columns \cup added,
                 [i \in 1..Len(base_lf.rows) |->
                     Row(base_lf.rows[i].timestamp,
                         [n \in base_lf.columns \cup added |->
                             IF n \in base_lf.columns THEN base_lf.rows[i].cells[n]
                             ELSE cell(base_lf.rows[i].timestamp, n)])])

(* Line 222: "timestamp" not in lf.columns, where _standardize_frame       *)
(* raises ValueError.                                                      *)
MissingTimestamp(symbol) == symbol \in no_timestamp

(* _join_result, given the standardized frame of the symbol: the           *)
(* ValueError of _standardize_frame is caught and returned as Err, and     *)
(* join_asof rejects a strategy it does not know.                          *)
JoinResult(base_lf, standardized, symbol) ==
    IF MissingTimestamp(symbol) THEN Err("Failed to join symbol")
    ELSE IF strategy = "backward"
    THEN Ok(JoinAsof(base_lf, Suffixed(standardized, symbol)))
    ELSE Err("Failed to join symbol")

(* Line 111 compares the list of symbols with the anchor symbol: a list is *)
(* never equal to a str.                                                   *)
ListEqualsStr(list, str) == FALSE

(* The loop of lines 110-123 over the symbols still to join; std gives the *)
(* standardized frame of each symbol.                                      *)
RECURSIVE JoinSymbols(_, _, _, _)
JoinSymbols(lf_aligned, todo, anchor_symbol, std) ==
    IF todo = <<>> THEN Ok(lf_aligned)
    ELSE IF ListEqualsStr(symbols, anchor_symbol)
    THEN JoinSymbols(lf_aligned, Tail(todo), anchor_symbol, std)
    ELSE LET join_result == JoinResult(lf_aligned, std[Head(todo)], Head(todo))
         IN IF is_err(join_result) THEN Err("Failed to Join")
            ELSE JoinSymbols(unwrap(join_result), Tail(todo), anchor_symbol, std)

PriceWords == {"open", "high", "low", "close", "volume"}

DropsRow(row, price_cols) == \A c \in price_cols : row.cells[c].null

(* _drop_null_rows *)
DropNullRows(lf) ==
    LET price_cols == {c \in lf.columns : c[1] \in PriceWords}
    IN IF price_cols = {} THEN lf
       ELSE LazyFrame(lf.columns, SelectSeq(lf.rows, LAMBDA r : ~DropsRow(r, price_cols)))

(* kwargs.get("strict", True) and kwargs.get("anchor", symbols[0]) *)
StrictMode(kw) == kw.strict # "False"
AnchorSymbol(kw) == IF kw.anchor = "unset" THEN symbols[1] ELSE kw.anchor

InSymbols(symbol) == \E i \in 1..Len(symbols) : symbols[i] = symbol

(* Lines 126-133: the cleanup after the joins. *)
Cleanup(joined) ==
    IF is_err(joined) THEN joined
    ELSE IF StrictMode(akwargs) THEN Ok(DropNullRows(unwrap(joined)))
    ELSE joined

Standardized(symbol) == StandardizeFrame(InputFrame(symbol, data_map[symbol]))

(* align: the values it can return, one for each way _standardize_frame    *)
(* can order the rows of the anchor and of every joined symbol.            *)
AlignResults ==
    IF symbols = <<>> THEN {Err("No data provided for alignment")}
    ELSE IF ~InSymbols(AnchorSymbol(akwargs)) THEN {Err("anchor_symbol not in data_map")}
    ELSE IF MissingTimestamp(AnchorSymbol(akwargs)) THEN {Err("Failed to prepare anchor")}
    ELSE {Cleanup(JoinSymbols(Suffixed(astd, AnchorSymbol(akwargs)), symbols,
                              AnchorSymbol(akwargs),
                              [s \in AllSymbols |-> IF s = "BTC" THEN b ELSE d])) :
              astd \in Standardized(AnchorSymbol(akwargs)),
              b \in Standardized("BTC"),
              d \in Standardized("DOGE")}

AlignIdle ==
    /\ strategy = "backward"
    /\ symbols = <<>>
    /\ data_map = NoRows
    /\ no_timestamp = {}
    /\ akwargs = [strict |-> "unset", anchor |-> "unset"]
    /\ aligned = Err("No data provided for alignment")

AlignInit ==
    /\ \E c \in AlignCalls :
          /\ strategy = c.strategy
          /\ akwargs = c.kwargs
    /\ \E m \in DataMaps :
          /\ symbols = m.symbols
          /\ data_map = m.data_map
          /\ no_timestamp \in SUBSET {s \in AllSymbols : InSymbols(s) /\ m.data_map[s] = <<>>}
    /\ aligned = None

Align ==
    /\ aligned = None
    /\ aligned' \in AlignResults
    /\ UNCHANGED <<strategy, symbols, data_map, no_timestamp, akwargs>>
    /\ UNCHANGED <<pipeVars, cached_hashes, hashVars, fsVars, schemaVars, otherVars>>

AlignNext == Align

-----------------------------------------------------------------------------
(* ValidationRules (processing/validation/rules.py)                        *)
(* A rule set is a record of the dataclass fields the code reads.          *)
(* max_null_pct is held in hundredths (0.05 is 5, the range [0,1] is       *)
(* 0..100), min_price in units of 1e-8, min_timestamp and max_timestamp in *)
(* units of 10^13 ms, and required_columns as the set of its elements.     *)

RuleFields == {"min_rows", "max_null_pct", "required_columns", "check_sorted",
               "strict_types", "check_ohlc_consistency", "min_price",
               "validate_timestamp_range", "min_timestamp", "max_timestamp"}

(* cls(): every field at its declared default. *)
DefaultRules ==
    [min_rows |-> 100, max_null_pct |-> 5, required_columns |-> {"timestamp", "close"},
     check_sorted |-> TRUE, strict_types |-> TRUE, check_ohlc_consistency |-> TRUE,
     min_price |-> 0, validate_timestamp_range |-> FALSE,
     min_timestamp |-> 0, max_timestamp |-> 1]

(* Keyword arguments and configuration dictionaries: each key is absent    *)
(* ({}) or carries one value ({v}); "invalid_key" is a key that is not a   *)
(* field of the dataclass.                                                 *)
KwKeys == RuleFields \cup {"invalid_key"}
NoKwargs == [k \in KwKeys |-> {}]
Kw(k, v) == [NoKwargs EXCEPT ![k] = {v}]
Kw2(k1, v1, k2, v2) == [NoKwargs EXCEPT ![k1] = {v1}, ![k2] = {v2}]

(* An exception leaving a call. *)
Raises(exc) == [tag |-> "Raises", exc |-> exc]
IsRules(r) == "min_rows" \in DOMAIN r

(* __post_init__ raises ValueError. *)
PostInitRaises(r) ==
    \/ r.min_rows < 1
    \/ ~(0 <= r.max_null_pct /\ r.max_null_pct <= 100)
    \/ r.min_price < 0
    \/ r.validate_timestamp_range /\ r.min_timestamp >= r.max_timestamp
    \/ r.required_columns = {}

(* The fields of `base` with the given keys of kw in their place. *)
Updated(base, kw) ==
    [f \in RuleFields |-> IF kw[f] = {} THEN base[f] ELSE CHOOSE v \in kw[f] : TRUE]

(* The constructor called with kw: TypeError for a key that is no field,  *)
(* else the generated __init__ followed by __post_init__.                 *)
ValidationRules(kw) ==
    IF kw["invalid_key"] # {} THEN Raises("TypeError")
    ELSE IF PostInitRaises(Updated(DefaultRules, kw)) THEN Raises("ValueError")
    ELSE Updated(DefaultRules, kw)

(* dataclasses.replace(self, kw): a new instance through __init__ and      *)
(* __post_init__.                                                          *)
replace(self, kw) ==
    IF PostInitRaises(Updated(self, kw)) THEN Raises("ValueError") ELSE Updated(self, kw)

(* ValidationRules.from_dict(config) *)
from_dict(is_dict, config) ==
    LET filtered == [config EXCEPT !["invalid_key"] = {}]
        cols == CHOOSE c \in config["required_columns"] : TRUE
        injected == IF filtered["required_columns"] = {}
                    THEN filtered
                    ELSE [filtered EXCEPT !["required_columns"] = {cols \cup {"timestamp"}}]
    IN  IF ~is_dict THEN ValidationRules(NoKwargs) ELSE ValidationRules(injected)

(* self.with_overrides(kw) *)
with_overrides(self, kw) ==
    LET safe_kwargs == [kw EXCEPT !["invalid_key"] = {}]
    IN  IF IsRules(replace(self, safe_kwargs)) THEN replace(self, safe_kwargs) ELSE self

create_strict_rules ==
    ValidationRules([NoKwargs EXCEPT
        !["min_rows"] = {1000}, !["max_null_pct"] = {1},
        !["required_columns"] = {{"timestamp", "open", "high", "low", "close", "volume"}},
        !["check_sorted"] = {TRUE}, !["strict_types"] = {TRUE},
        !["check_ohlc_consistency"] = {TRUE}, !["min_price"] = {1},
        !["validate_timestamp_range"] = {TRUE}])

create_loose_rules ==
    ValidationRules([NoKwargs EXCEPT
        !["min_rows"] = {10}, !["max_null_pct"] = {50},
        !["required_columns"] = {{"timestamp", "close"}},
        !["check_sorted"] = {FALSE}, !["strict_types"] = {FALSE},
        !["check_ohlc_consistency"] = {FALSE}])

-----------------------------------------------------------------------------
(* PolarsValidator (processing/validation/validator.py)                    *)
(* A LazyFrame is abstracted by what the validator's queries read from it: *)
(* its schema (cols, ts_type), pl.len() (row_count), the null count of its *)
(* one column holding nulls, timestamp.is_sorted(), the two violation      *)
(* counts of the OHLC query, and whether collect() succeeds at all.        *)

ValidatorColumns == {{"timestamp", "close"}, {"close"},
                     {"timestamp", "close", "high", "low"},
                     {"timestamp", "close", "funding"}}

ValidatorFrames ==
    {f \in [cols : ValidatorColumns, ts_type : {"Int64", "Datetime", "String", "absent"},
            row_count : 0..MaxValRows, null_col : {"timestamp", "close", "high", "funding"},
            null_count : 0..MaxValRows, is_sorted : BOOLEAN,
            bad_wick : {0, 1}, bad_price : {0, 1}, collect : {"ok", "raises"}] :
        /\ (f.ts_type = "absent") <=> ("timestamp" \notin f.cols)
        /\ f.null_count <= f.row_count
        /\ IF f.null_count = 0 THEN f.null_col = "close" ELSE f.null_col \in f.cols
        /\ f.row_count < 2 \/ "timestamp" \notin f.cols => f.is_sorted
        /\ f.bad_wick + f.bad_price <= f.row_count
        /\ f.bad_wick = 1 => "high" \in f.cols
        /\ f.collect = "raises" =>
              f.row_count = MaxValRows /\ f.null_count = 0 /\ f.bad_wick + f.bad_price = 0}

NoFrame == [cols |-> {}, ts_type |-> "absent", row_count |-> 0, null_col |-> "close",
            null_count |-> 0, is_sorted |-> TRUE, bad_wick |-> 0, bad_price |-> 0,
            collect |-> "ok"]

(* The rules dictionaries handed to validate. *)
ValidatorOverrides ==
    {NoKwargs,
     Kw("min_rows", 1), Kw("min_rows", 0),
     Kw("max_null_pct", 0), Kw("max_null_pct", 150),
     Kw2("min_rows", 2, "max_null_pct", 150),
     Kw("required_columns", {"close"}), Kw("required_columns", {}),
     Kw("check_sorted", FALSE), Kw("check_ohlc_consistency", FALSE),
     Kw("strict_types", FALSE), Kw("invalid_key", 1)}

(* The rule sets a validator is constructed with. *)
ValidatorRules ==
    {DefaultRules,
     ValidationRules(Kw2("min_rows", 2, "max_null_pct", 50)),
     from_dict(TRUE, Kw2("min_rows", 3, "check_sorted", FALSE))}

(* _resolve_rules *)
resolve_rules(defaults, overrides) ==
    IF overrides = NoKwargs THEN defaults ELSE with_overrides(defaults, overrides)

(* _validate_schema *)
ValidateSchema(data, rules) ==
    IF rules.required_columns \ data.cols # {}
    THEN Err("Schema Mismatch: Missing required columns")
    ELSE IF /\ rules.strict_types
            /\ "timestamp" \in data.cols
            /\ ~(data.ts_type = "Int64" \/ data.ts_type = "Datetime")
         THEN Err("Type Error: 'timestamp' must be Int64 or Datetime")
         ELSE Ok("None")

(* _collect_stats: pl.len() and the null count of every checked column. *)
CollectStats(data, rules) ==
    LET ohlc_cols == {"open", "high", "low", "close", "volume"}
        cols_to_check == {c \in data.cols : c \in rules.required_columns \/ c \in ohlc_cols}
    IN  [row_count |-> data.row_count,
         nulls |-> [c \in cols_to_check |-> IF c = data.null_col THEN data.null_count ELSE 0]]

(* ratio = n_null / row_count; ratio > rules.max_null_pct *)
ExceedsEqual(n_null, row_count, max_null_pct) == n_null * 100 >= max_null_pct * row_count
Exceeds(n_null, row_count, max_null_pct) == n_null * 100 > max_null_pct * row_count

(* _analyze_stats *)
AnalyzeStats(stats, rules) ==
    IF stats.row_count < rules.min_rows
    THEN Err("Insufficient Data")
    ELSE IF DOMAIN stats.nulls = {} \/ stats.row_count = 0
         THEN Ok("None")
         ELSE IF \E key \in DOMAIN stats.nulls :
                    Exceeds(stats.nulls[key], stats.row_count, rules.max_null_pct)
              THEN Err("Data Quality Bad")
              ELSE Ok("None")

(* _validate_sorting: selecting a timestamp column the frame does not have *)
(* raises inside its try block.                                            *)
ValidateSorting(data) ==
    IF "timestamp" \notin data.cols THEN Err("Sorting check error")
    ELSE IF ~data.is_sorted THEN Err("Integrity Error: Timestamp is not sorted ascending")
    ELSE Ok("None")

IsOhlc(data) == {"high", "low", "close"} \subseteq data.cols

(* _validate_price_consistency *)
ValidatePriceConsistency(data) ==
    IF ~IsOhlc(data) THEN Ok("None")
    ELSE IF data.bad_wick > 0 THEN Err("Integrity Error: High < Low")
    ELSE IF data.bad_price > 0 THEN Err("Integrity Error: Price <= 0")
    ELSE Ok("None")

(* _update_summary; the summary of __init__ has neither snapshot nor stats *)
Summary(status, now, rules_snapshot, row_count) ==
    [status |-> status, timestamp |-> now,
     rules_snapshot |-> rules_snapshot, row_count |-> row_count]

(* `if res.is_err(): return res` after a phase *)
FallsThrough(res) == FALSE
Returns(res) == is_err(res)

(* validate(data, overrides) at time `now`: what it returns, the rules and *)
(* phases it went through, and the summary it leaves.                      *)
validate(defaults, summary, now, data, overrides) ==
    LET rules == resolve_rules(defaults, overrides)
        Out(res, ev, sc, sum) ==
            [ret |-> res, active_rules |-> rules, evaluated |-> ev, scans |-> sc,
             last_summary |-> sum]
        Passed == Summary("passed", now, {rules}, {data.row_count})
        schema_res == ValidateSchema(data, rules)
        stats_res == AnalyzeStats(CollectStats(data, rules), rules)
        sort_res == ValidateSorting(data)
        price_res == ValidatePriceConsistency(data)
        Price(ev, sc) ==
            IF rules.check_ohlc_consistency
            THEN LET sc2 == IF IsOhlc(data) THEN sc + 1 ELSE sc IN
                 IF Returns(price_res)
                 THEN Out(price_res, Append(ev, "ohlc"), sc2, summary)
                 ELSE Out(Ok(data), Append(ev, "ohlc"), sc2, Passed)
            ELSE Out(Ok(data), ev, sc, Passed)
        Sorting(ev, sc) ==
            IF rules.check_sorted
            THEN IF Returns(sort_res)
                 THEN Out(sort_res, Append(ev, "sorted"), sc + 1, summary)
                 ELSE Price(Append(ev, "sorted"), sc + 1)
            ELSE Price(ev, sc)
    IN  IF Returns(schema_res)
        THEN Out(schema_res, <<"schema">>, 0, summary)
        ELSE IF data.collect = "raises"
             THEN Out(Err("Validator System Error"), <<"schema", "statistics">>, 1,
                      Summary("error", now, {defaults}, {}))
             ELSE IF Returns(stats_res)
                  THEN Out(stats_res, <<"schema", "statistics">>, 1, summary)
                  ELSE Sorting(<<"schema", "statistics">>, 1)

ValidatorInit ==
    /\ default_rules \in ValidatorRules
    /\ last_summary = Summary("idle", 0, {}, {})
    /\ vclock = 0
    /\ vdata = NoFrame
    /\ voverrides = NoKwargs
    /\ active_rules = default_rules
    /\ evaluated = <<>>
    /\ scans = 0
    /\ vret = None

(* The validator of the specifications that do not call it. *)
ValidatorIdle ==
    /\ ValidatorInit
    /\ default_rules = DefaultRules

(* validator.validate(data, overrides) *)
Validate(data, overrides) ==
    /\ vclock < MaxValidations
    /\ LET out == validate(default_rules, last_summary, vclock + 1, data, overrides) IN
          /\ vret' = out.ret
          /\ active_rules' = out.active_rules
          /\ evaluated' = out.evaluated
          /\ scans' = out.scans
          /\ last_summary' = out.last_summary
    /\ vclock' = vclock + 1
    /\ vdata' = data
    /\ voverrides' = overrides
    /\ UNCHANGED default_rules
    /\ UNCHANGED <<coreVars, configVars, tierVars, stdVars, saveVars, windowVars, entryVars>>

(* The first validate call on a validator. *)
FirstValidate(data, overrides) ==
    /\ vclock = 0
    /\ Validate(data, overrides)

ValidatorNext == \E data \in ValidatorFrames, overrides \in ValidatorOverrides :
                    FirstValidate(data, overrides)

(* The frames and rules dictionaries of a validator called again and      *)
(* again: complete or empty, sorted or not, readable or not.              *)
SummaryFrames ==
    {f \in ValidatorFrames :
        /\ f.cols = {"timestamp", "close"}
        /\ f.ts_type = "Int64"
        /\ f.row_count \in {0, MaxValRows}
        /\ f.null_count = 0}

SummaryNext == \E data \in SummaryFrames,
                     overrides \in {NoKwargs, Kw("check_sorted", FALSE), Kw("min_rows", 1)} :
                  Validate(data, overrides)

-----------------------------------------------------------------------------
(* Configuration entry points: the ValidationRules constructor, from_dict, *)
(* the presets, with_overrides, create_validator, a validate call with a   *)
(* rules dictionary, and get_aligner (alignment/aligner.py).               *)
(* A tolerance is the sequence of its characters.                          *)

Tolerances == {<<"1", "m">>, <<"5", "s">>, <<"5", "0", "m", "s">>, <<"2", "h">>,
               <<"1", "d">>, <<"1", "0">>}
Methods == {"asof", "exact", "nearest"}

EndsWith(str, suffix) ==
    /\ Len(str) >= Len(suffix)
    /\ SubSeq(str, Len(str) - Len(suffix) + 1, Len(str)) = suffix

(* HybridAsofAligner.__init__ with _validate_constructor: ValueError for a *)
(* strategy outside valid_strategies, a logged warning and nothing else    *)
(* for a tolerance without a known unit suffix.                            *)
HybridAsofAligner(tolerance, join_strategy) ==
    IF join_strategy \notin ValidStrategies THEN Raises("ValueError")
    ELSE [aligner |-> "HybridAsofAligner", tolerance |-> tolerance, strategy |-> join_strategy]

(* ExactTimeAligner() *)
ExactTimeAligner == [aligner |-> "ExactTimeAligner", tolerance |-> <<>>, strategy |-> "inner"]

(* strategies.create_aligner *)
create_aligner(strategy_name, tolerance, join_strategy) ==
    IF strategy_name = "asof"
    THEN IF "aligner" \in DOMAIN HybridAsofAligner(tolerance, join_strategy)
         THEN Ok(HybridAsofAligner(tolerance, join_strategy))
         ELSE Err("failed to create aligner")
    ELSE IF strategy_name = "exact" THEN Ok(ExactTimeAligner)
    ELSE Err("Create aligner does not comply with TimeSeriesAligner protocol")

(* The join_strategy keyword of get_aligner: not given, or a direction name. *)
JoinStrategies == {{}} \cup {{name} : name \in {"backward", "forward", "foward", "nearest"}}

(* kwargs.get("join_strategy", "backward") *)
JoinStrategy(given) == IF given = {} THEN "backward" ELSE CHOOSE name \in given : TRUE

(* aligner.get_aligner(method, tolerance, join_strategy=...) *)
get_aligner(method, tolerance, join_strategy) ==
    IF method \notin {"asof", "exact"} THEN Err("Invalid method")
    ELSE create_aligner(method, tolerance, JoinStrategy(join_strategy))

(* validator.create_validator(rules) *)
create_validator(rules) ==
    LET default_rules_arg == IF rules = NoKwargs THEN DefaultRules ELSE from_dict(TRUE, rules)
    IN  IF IsRules(default_rules_arg)
        THEN Ok(default_rules_arg)
        ELSE Err("Validator Creation Failed")

(* The configuration a call was given; the parts an entry point does not   *)
(* take stay as in NoInput.                                                *)
NoInput == [rules |-> NoKwargs, is_dict |-> TRUE, data |-> NoFrame,
            method |-> "asof", tolerance |-> <<"1", "m">>, join_strategy |-> {}]

ConfigIdle ==
    /\ rules_obj = None
    /\ centry = "none"
    /\ cinput = NoInput
    /\ cout = None

ConfigInit == ConfigIdle

(* One call of an entry point: what it was given, what the caller got, and *)
(* the ValidationRules instance it produced, if any.                       *)
Configured(entry, input, out, instance) ==
    /\ centry' = entry
    /\ cinput' = input
    /\ cout' = out
    /\ rules_obj' = IF IsRules(instance) THEN instance ELSE rules_obj
    /\ UNCHANGED <<coreVars, validatorVars, tierVars, stdVars, saveVars, windowVars, entryVars>>

(* The keyword arguments and dictionaries the entry points are given. *)
ConfigKwargs ==
    {NoKwargs, Kw("min_rows", 1), Kw("min_rows", 0), Kw2("min_rows", 2, "max_null_pct", 150),
     Kw("required_columns", {"close"}), Kw("required_columns", {}), Kw("min_price", -1),
     Kw("invalid_key", 1)}

(* ValidationRules(kw) *)
NewRules(kw) ==
    /\ kw \in ConfigKwargs
    /\ Configured("ValidationRules", [NoInput EXCEPT !.rules = kw],
                  ValidationRules(kw), ValidationRules(kw))

(* ValidationRules.from_dict(config) *)
FromDict(is_dict, config) ==
    /\ config \in ConfigKwargs
    /\ Configured("from_dict", [NoInput EXCEPT !.rules = config, !.is_dict = is_dict],
                  from_dict(is_dict, config), from_dict(is_dict, config))

(* ValidationRules.create_strict_rules() and create_loose_rules() *)
Preset(strict) ==
    /\ strict \in BOOLEAN
    /\ LET r == IF strict THEN create_strict_rules ELSE create_loose_rules
       IN  Configured(IF strict THEN "create_strict_rules" ELSE "create_loose_rules",
                      NoInput, r, r)

(* rules_obj.with_overrides(kw) on an instance produced earlier *)
WithOverrides(kw) ==
    /\ IsRules(rules_obj)
    /\ Configured("with_overrides", [NoInput EXCEPT !.rules = kw],
                  with_overrides(rules_obj, kw), with_overrides(rules_obj, kw))

(* create_validator(rules) *)
CreateValidator(rules) ==
    /\ rules \in ConfigKwargs
    /\ Configured("create_validator", [NoInput EXCEPT !.rules = rules],
                  create_validator(rules), None)

(* PolarsValidator(rules_obj).validate(data, overrides) *)
ValidateWith(data, overrides) ==
    /\ IsRules(rules_obj)
    /\ Configured("validate", [NoInput EXCEPT !.rules = overrides, !.data = data],
                  validate(rules_obj, Summary("idle", 0, {}, {}), 1, data, overrides).ret,
                  None)

(* get_aligner(method, tolerance, join_strategy=...) *)
GetAligner(method, tolerance, join_strategy) ==
    /\ method \in Methods
    /\ Configured("get_aligner",
                  [NoInput EXCEPT !.method = method, !.tolerance = tolerance,
                                  !.join_strategy = join_strategy],
                  get_aligner(method, tolerance, join_strategy), None)

ConfigNext ==
    \/ \E kw \in ConfigKwargs : NewRules(kw)
    \/ \E is_dict \in BOOLEAN, config \in ConfigKwargs : FromDict(is_dict, config)
    \/ \E strict \in BOOLEAN : Preset(strict)
    \/ \E kw \in ConfigKwargs : WithOverrides(kw)
    \/ \E rules \in ConfigKwargs : CreateValidator(rules)
    \/ \E data \in SummaryFrames, overrides \in ConfigKwargs : ValidateWith(data, overrides)
    \/ \E method \in Methods, tolerance \in Tolerances, join_strategy \in JoinStrategies :
          GetAligner(method, tolerance, join_strategy)

-----------------------------------------------------------------------------
(* Feature tiers: LogReturnsTransformer (transformation/returns.py),       *)
(* MicrostructureTransformer (features/market_micro.py, the class          *)
(* definition in force, lines 184-301) and StatArbTransformer              *)
(* (features/stat_arb.py, lines 158-340), chained fail-fast as             *)
(* _execute_transformations chains them.                                   *)
(* A LazyFrame is abstracted by the column names of its plan and by        *)
(* whether collect_schema() can resolve the plan. A column name is the     *)
(* sequence of its parts between underscores: close_BTC is                 *)
(* <<"close", "BTC">>.                                                     *)

TierNames == {"returns", "microstructure", "stationarity"}
TierSymbols == {"BTC", "DOGE"}
Window == "1h"

(* The frames an aligner hands over: a timestamp and suffixed fields. *)
AlignedFrames ==
    {[cols |-> {<<"timestamp">>} \cup fields, resolves |-> TRUE] :
        fields \in SUBSET {<<"close", "BTC">>, <<"close", "DOGE">>, <<"volume", "BTC">>}}

(* The transformers' parameters: target_columns (empty: auto-detect) of    *)
(* the Returns tier, anchor_symbol of the other two.                       *)
TierParams ==
    [target_columns : {{}, {<<"close", "DOGE">>}, {<<"close", "BTC">>, <<"close", "DOGE">>}},
     anchor_symbol : TierSymbols]

TierPipelines == UNION {[1..n -> TierNames] : n \in 1..MaxTiers}

(* c.startswith(prefix + "_") *)
startswith(col, prefix) == Len(col) > 1 /\ col[1] = prefix

(* col.replace(prefix + "_", ""): the names here hold the prefix once. *)
without(col, prefix) == IF startswith(col, prefix) THEN Tail(col) ELSE col

NeverEmpty(list) == FALSE

(* `if not targets`, `if not ret_cols` *)
Empty(list) == list = {}

(* LogReturnsTransformer.transform. The returns expression refers to the   *)
(* log column that the same with_columns call creates: whether the plan    *)
(* returned can be resolved is left open.                                  *)
LogReturns(data, target_columns) ==
    LET schema_cols == data.cols
        targets == IF target_columns # {}
                   THEN {c \in target_columns : c \in schema_cols}
                   ELSE {c \in schema_cols : startswith(c, "close")}
        added == {<<"log">> \o without(c, "close") : c \in targets}
                 \cup {<<"ret">> \o without(c, "close") : c \in targets}
    IN  IF ~data.resolves THEN {Err("Transformation Error")}
        ELSE IF Empty(targets) THEN {Err("LogReturns: No target columns found")}
        ELSE {Ok([cols |-> schema_cols \cup added, resolves |-> r]) : r \in BOOLEAN}

(* MicrostructureTransformer.transform *)
Microstructure(data, anchor_symbol) ==
    LET schema_cols == data.cols
        ret_cols == {c \in schema_cols : startswith(c, "ret")}
        anchor_col == <<"ret", anchor_symbol>>
        has_anchor == anchor_col \in ret_cols
        vol == {<<"vol">> \o without(c, "ret") \o <<Window>> : c \in ret_cols}
        corr == IF has_anchor
                THEN {<<"corr">> \o without(c, "ret") \o <<anchor_symbol, Window>> :
                          c \in ret_cols \ {anchor_col}}
                ELSE {}
    IN  IF ~data.resolves THEN {Err("Tier 2 Error")}
        ELSE IF Empty(ret_cols) THEN {Err("Tier 2 Error: No 'ret_*' columns found.")}
        ELSE {Ok([cols |-> schema_cols \cup vol \cup corr, resolves |-> TRUE])}

(* StatArbTransformer.transform *)
StatArb(data, anchor_symbol) ==
    LET schema_cols == data.cols
        log_cols == {c \in schema_cols : startswith(c, "log")}
        anchor_col == <<"log", anchor_symbol>>
        targets == log_cols \ {anchor_col}
        beta == {<<"beta">> \o without(c, "log") \o <<anchor_symbol>> : c \in targets}
        spread == {<<"spread">> \o without(c, "log") : c \in targets}
        z_score == {<<"z", "score">> \o without(c, "log") :
                       c \in {t \in log_cols : without(t, "log") # <<anchor_symbol>>}}
    IN  IF ~data.resolves THEN {Err("Tier 3 Error")}
        ELSE IF anchor_col \notin log_cols THEN {Err("Tier 3 Error: Anchor not found. Run Tier 1 first.")}
        ELSE IF Cardinality(log_cols) < 2
             THEN {Err("Tier 3 Error: Need at least one target asset for arbitrage.")}
        ELSE {Ok([cols |-> schema_cols \cup beta \cup spread \cup z_score, resolves |-> TRUE])}

(* transformer.transform(current_data) of the tier named *)
TierTransform(tier, data, params) ==
    CASE tier = "returns" -> LogReturns(data, params.target_columns)
      [] tier = "microstructure" -> Microstructure(data, params.anchor_symbol)
      [] tier = "stationarity" -> StatArb(data, params.anchor_symbol)

TierIdle ==
    /\ tpipeline = <<>>
    /\ tparams = [target_columns |-> {}, anchor_symbol |-> "BTC"]
    /\ tdata = [cols |-> {}, resolves |-> TRUE]
    /\ tbefore = [cols |-> {}, resolves |-> TRUE]
    /\ tpos = 0
    /\ tres = None

TierInit ==
    /\ tpipeline \in TierPipelines
    /\ tparams \in TierParams
    /\ tdata \in AlignedFrames
    /\ tbefore = tdata
    /\ tpos = 0
    /\ tres = None

(* One iteration of the transformer loop: the next tier is given the       *)
(* current frame; its Err ends the loop.                                   *)
Transform ==
    /\ tpos < Len(tpipeline)
    /\ tpos = 0 \/ is_ok(tres)
    /\ \E result \in TierTransform(tpipeline[tpos + 1], tdata, tparams) :
          /\ tres' = result
          /\ tdata' = IF is_ok(result) THEN unwrap(result) ELSE tdata
    /\ tbefore' = tdata
    /\ tpos' = tpos + 1
    /\ UNCHANGED <<tpipeline, tparams>>
    /\ UNCHANGED <<coreVars, validatorVars, configVars, stdVars, saveVars, windowVars, entryVars>>

TierNext == Transform

-----------------------------------------------------------------------------
(* _standardize_frame of HybridAsofAligner and of ExactTimeAligner on one  *)
(* input series.                                                           *)

StdSymbol == "BTC"

(* ExactTimeAligner._standardize_frame: the cast of timestamp and the      *)
(* derived datatime column; the rows stay as they are.                     *)
ExactStandardizeFrame(lf) == {lf}

StdInputs == UNION {Frames(n) : n \in 0..MaxRows}

StdIdle ==
    /\ std_strategy = "asof"
    /\ std_input = <<>>
    /\ std_out = None

StdInit ==
    /\ std_strategy \in {"asof", "exact"}
    /\ std_input \in StdInputs
    /\ std_out = None

(* self._standardize_frame(data_map[symbol], symbol) *)
Standardize ==
    /\ std_out = None
    /\ std_out' \in IF std_strategy = "asof"
                    THEN StandardizeFrame(InputFrame(StdSymbol, std_input))
                    ELSE ExactStandardizeFrame(InputFrame(StdSymbol, std_input))
    /\ UNCHANGED <<std_strategy, std_input>>
    /\ UNCHANGED <<coreVars, validatorVars, configVars, tierVars, saveVars, windowVars, entryVars>>

StdNext == Standardize

-----------------------------------------------------------------------------
(* ParquetStorageEngine.save (storage/parquet_engine.py): schema           *)
(* enforcement, collect, write_parquet, update_registry. The registry is   *)
(* taken by what update_registry returns and by its atomic replacement of  *)
(* the entry on record.                                                    *)

TsColumn == <<"t", "s">>
LogColumn == <<"l", "o", "g", "_", "a">>

(* data.collect_schema() of the frames handed to save *)
SaveSchemas ==
    { <<Column(TsColumn, Int64), Column(LogColumn, Float64)>>,
      <<Column(TsColumn, Int64), Column(LogColumn, Float32)>>,
      <<Column(TsColumn, Int64)>> }

NoEntry == [save |-> 0, feature_params |-> <<>>]

SaveCall(name, outcome) == [call |-> name, outcome |-> outcome]

AcceptsAll(validation) == FALSE

(* `if validation.is_err()`, line 28 *)
Rejected(validation) == is_err(validation)

(* What self.registry.update_registry(...) returns: Err when the           *)
(* fingerprint cannot be computed, when json.dump cannot encode a          *)
(* parameter, or when writing the file fails.                              *)
UpdateRegistryResult(feature_params, ioerr) ==
    IF \/ GenerateFeatureHash({}, feature_params).res = Raised
       \/ ~Encodable(feature_params)
       \/ ioerr
    THEN Err("Metadata Registry Error")
    ELSE Ok("None")

(* The pipeline's step status for the result of storage.save, lines 458-461 *)
StorageStepStatus(result) == IF is_ok(result) THEN "success" ELSE "failed"

SaveIdle ==
    /\ save_n = 0
    /\ save_arg = [schema |-> <<>>, feature_params |-> <<>>]
    /\ lake = {}
    /\ registry_entry = NoEntry
    /\ lake_before = {}
    /\ entry_before = NoEntry
    /\ save_trace = <<>>
    /\ save_ret = None

SaveInit == SaveIdle

(* save(data, feature_params). collects: processed_lf.collect() succeeds;  *)
(* write: what df.write_parquet does ("ok", or it raises having written    *)
(* "nothing" or "part" of the partitions); ioerr: the registry's file      *)
(* write fails.                                                            *)
Save(schema, feature_params, collects, write, ioerr) ==
    /\ save_n < MaxSaves
    /\ save_n' = save_n + 1
    /\ save_arg' = [schema |-> schema, feature_params |-> feature_params]
    /\ lake_before' = lake
    /\ entry_before' = registry_entry
    /\ LET validation == ValidateSchemaIntegrityResult(schema)
           commit == UpdateRegistryResult(feature_params, ioerr)
       IN IF Rejected(validation)
          THEN /\ save_trace' = <<SaveCall("validate_schema_integrity", "err")>>
               /\ save_ret' = Err("Storage Rejected")
               /\ UNCHANGED <<lake, registry_entry>>
          ELSE IF ~collects
          THEN /\ save_trace' = <<SaveCall("validate_schema_integrity", validation.tag),
                                  SaveCall("collect", "raise")>>
               /\ save_ret' = Err("Parquet Write Error")
               /\ UNCHANGED <<lake, registry_entry>>
          ELSE IF write # "ok"
          THEN /\ save_trace' = <<SaveCall("validate_schema_integrity", validation.tag),
                                  SaveCall("collect", "ok"),
                                  SaveCall("write_parquet", "raise")>>
               /\ lake' = IF write = "part"
                          THEN lake \cup {[save |-> save_n + 1, complete |-> FALSE]}
                          ELSE lake
               /\ save_ret' = Err("Parquet Write Error")
               /\ UNCHANGED registry_entry
          ELSE /\ save_trace' = <<SaveCall("validate_schema_integrity", validation.tag),
                                  SaveCall("collect", "ok"),
                                  SaveCall("write_parquet", "ok"),
                                  SaveCall("update_registry", commit.tag)>>
               /\ lake' = lake \cup {[save |-> save_n + 1, complete |-> TRUE]}
               /\ registry_entry' =
                      IF is_ok(commit)
                      THEN [save |-> save_n + 1, feature_params |-> JsonRoundTrip(feature_params)]
                      ELSE registry_entry
               /\ save_ret' = Ok("base_path")
    /\ UNCHANGED <<coreVars, validatorVars, configVars, tierVars, stdVars, windowVars, entryVars>>

SaveNext ==
    \E schema \in SaveSchemas, feature_params \in RegistryParams, collects \in BOOLEAN,
       write \in {"ok", "nothing", "part"}, ioerr \in BOOLEAN :
        Save(schema, feature_params, collects, write, ioerr)

-----------------------------------------------------------------------------
(* Window resolution: MicrostructureTransformer._parse_window_to_rows      *)
(* (features/market_micro.py) and StatArbTransformer._parse_to_rows        *)
(* (features/stat_arb.py). A duration string is the sequence of its        *)
(* characters.                                                             *)

Digits == {"0", "1", "2", "3", "4", "5", "6", "7", "8", "9"}

(* The value of a digit character. *)
DigitValue(c) ==
    CASE c = "0" -> 0 [] c = "1" -> 1 [] c = "2" -> 2 [] c = "3" -> 3 [] c = "4" -> 4
      [] c = "5" -> 5 [] c = "6" -> 6 [] c = "7" -> 7 [] c = "8" -> 8 [] c = "9" -> 9

(* ''.join(filter(str.isdigit, window_str)) *)
DigitsOf(str) == SelectSeq(str, LAMBDA c : c \in Digits)

(* ''.join(filter(str.isalpha, window_str)).lower(): the strings here hold *)
(* digits and letters only.                                                *)
UnitOf(str) == Lower(SelectSeq(str, LAMBDA c : c \notin Digits))

(* int(digits): ValueError for the empty string *)
RECURSIVE IntOf(_)
IntOf(digits) ==
    IF Len(digits) = 1 THEN DigitValue(digits[1])
    ELSE 10 * IntOf(SubSeq(digits, 1, Len(digits) - 1)) + DigitValue(digits[Len(digits)])

DefaultRows == 60

(* MicrostructureTransformer._parse_window_to_rows *)
parse_window_to_rows(window) ==
    LET val == IntOf(DigitsOf(window))
        unit == UnitOf(window)
    IN  IF DigitsOf(window) = <<>> THEN DefaultRows
        ELSE IF unit = <<"m">> \/ unit = <<>> THEN val
        ELSE IF unit = <<"h">> THEN val * 60
        ELSE IF unit = <<"d">> THEN val * 1440
        ELSE val

(* StatArbTransformer._parse_to_rows *)
parse_to_rows(window) ==
    LET val == IntOf(DigitsOf(window))
        unit == UnitOf(window)
    IN  IF DigitsOf(window) = <<>> THEN DefaultRows
        ELSE IF unit \in {<<"h">>, <<"h", "r">>} THEN val * 60
        ELSE IF unit \in {<<"d">>, <<"d", "a", "y">>} THEN val * 1440
        ELSE IF unit \in {<<"w">>, <<"w", "e", "e", "k">>} THEN val * 10080
        ELSE val

WindowNumbers == {<<>>, <<"1">>, <<"2">>, <<"4">>, <<"1", "5">>, <<"2", "4">>, <<"3", "0">>}
WindowUnits == {<<>>, <<"m">>, <<"h">>, <<"d">>, <<"w">>, <<"H">>, <<"D">>, <<"W">>, <<"i">>,
                <<"x">>, <<"h", "r">>, <<"d", "a", "y">>, <<"w", "e", "e", "k">>,
                <<"m", "i", "n">>}

(* The duration strings given: a number and a unit, either possibly empty. *)
WindowStrings == {n \o u : n \in WindowNumbers, u \in WindowUnits}

WindowIdle ==
    /\ window_str = <<>>
    /\ window_rows = None

WindowInit ==
    /\ window_str \in WindowStrings
    /\ window_rows = None

(* Both tiers resolve the window. *)
ResolveWindow ==
    /\ window_rows = None
    /\ window_rows' = [microstructure |-> parse_window_to_rows(window_str),
                       stationarity |-> parse_to_rows(window_str)]
    /\ UNCHANGED window_str
    /\ UNCHANGED <<coreVars, validatorVars, configVars, tierVars, stdVars, saveVars, entryVars>>

WindowNext == ResolveWindow

-----------------------------------------------------------------------------
(* update_registry and load_registry on the whole registry entry           *)
(* (metadata_registry.py 84-128 and 158-171), one call after another. A    *)
(* column name is a string of digits; additional_metadata is a dictionary  *)
(* that gives each of its keys at most once ({}: the key is absent).       *)

EntryColumns ==
    { <<>>, << <<1, 0>>, <<2>> >>, << <<2>>, <<1, 0>> >>, << <<2>>, <<2>> >> }

NoMetadata == [column_count |-> {}, columns |-> {}, feature_hash |-> {}, note |-> {}]

AdditionalMetadata ==
    { NoMetadata,
      [NoMetadata EXCEPT !.note = {1}],
      [NoMetadata EXCEPT !.column_count = {0}],
      [NoMetadata EXCEPT !.columns = {<< <<2>>, <<1, 0>> >>}],
      [NoMetadata EXCEPT !.feature_hash = {NoHash}] }

(* a <= b on str *)
StrLessEq(a, b) == a = b \/ StrLess(a, b)

RECURSIVE InsertColumn(_, _)
InsertColumn(x, sorted) ==
    IF sorted = <<>> THEN <<x>>
    ELSE IF StrLess(x, Head(sorted)) THEN <<x>> \o sorted
    ELSE <<Head(sorted)>> \o InsertColumn(x, Tail(sorted))

AsGiven(columns) == columns

(* sorted(columns), line 103 *)
RECURSIVE sorted(_)
sorted(columns) ==
    IF columns = <<>> THEN <<>> ELSE InsertColumn(Head(columns), sorted(Tail(columns)))

(* registry_data, lines 99-109, with the fields the invariant is about *)
RegistryEntry(now, row_count, columns, feature_hash, feature_params) ==
    [last_update |-> now,
     row_count |-> row_count,
     column_count |-> Len(columns),
     columns |-> sorted(columns),
     feature_hash |-> feature_hash,
     feature_params |-> feature_params,
     note |-> {}]

Given(option, otherwise) == IF option = {} THEN otherwise ELSE CHOOSE v \in option : TRUE

(* registry_data.update(additional_metadata), lines 111-112 *)
WithMetadata(data, additional) ==
    [data EXCEPT !.column_count = Given(additional.column_count, @),
                 !.columns = Given(additional.columns, @),
                 !.feature_hash = Given(additional.feature_hash, @),
                 !.note = additional.note]

(* json.load of what json.dump wrote for registry_data *)
Loaded(data) == [data EXCEPT !.feature_params = JsonRoundTrip(@)]

NoRecord == [last_update |-> 0]

EntryIdle ==
    /\ entry_clock = 0
    /\ entry_args = <<>>
    /\ entry_res = None
    /\ entry_file = NoRecord
    /\ entry_last = NoRecord

EntryInit == EntryIdle

(* update_registry(row_count, columns, feature_params, additional_metadata) *)
(* as one call; ioerr: writing or renaming the temp file fails.            *)
UpdateEntry(row_count, columns, feature_params, additional, ioerr) ==
    /\ entry_clock < MaxCommits
    /\ entry_clock' = entry_clock + 1
    /\ entry_args' = <<row_count, columns, feature_params, additional>>
    /\ LET h == GenerateFeatureHash({}, feature_params)
           registry_data ==
               WithMetadata(RegistryEntry(entry_clock + 1, row_count, columns,
                                          h.res.hash, feature_params),
                            additional)
       IN IF h.res = Raised \/ ~Encodable(feature_params) \/ ioerr
          THEN /\ entry_res' = Err("Metadata Registry Error")
               /\ UNCHANGED <<entry_file, entry_last>>
          ELSE /\ entry_res' = Ok("None")
               /\ entry_file' = Loaded(registry_data)
               /\ entry_last' = Loaded(registry_data)
    /\ UNCHANGED <<coreVars, validatorVars, configVars, tierVars, stdVars, saveVars, windowVars>>

EntryNext ==
    \E columns \in EntryColumns, feature_params \in RegistryParams,
       additional \in AdditionalMetadata, ioerr \in BOOLEAN :
        UpdateEntry(1, columns, feature_params, additional, ioerr)

-----------------------------------------------------------------------------
(* The components the specifications above leave idle. *)
OthersIdle == ValidatorIdle /\ ConfigIdle /\ TierIdle /\ StdIdle /\ SaveIdle /\ WindowIdle /\ EntryIdle

-----------------------------------------------------------------------------
(* Specifications *)

(* The pipeline orchestrator. *)
Init == PipeInit /\ HashIdle /\ FsIdle /\ SchemaIdle /\ AlignIdle /\ OthersIdle
Next == PipeNext
Spec == Init /\ [][Next]_vars

(* generate_feature_hash applied to every pair of configurations. *)
HashSpecInit == HashInit /\ PipeIdle /\ FsIdle /\ SchemaIdle /\ AlignIdle /\ OthersIdle
HashSpec == HashSpecInit /\ [][HashNext]_vars

(* update_registry and load_registry, one process at a time, with crashes. *)
RegistrySpecInit == RegistryInit /\ PipeIdle /\ SchemaIdle /\ AlignIdle /\ OthersIdle
RegistrySpec == RegistrySpecInit /\ [][RegistryNext]_vars

(* update_registry and load_registry of concurrent pipeline runs. *)
ConcurrentSpec == RegistrySpecInit /\ [][ConcurrentNext]_vars

(* update_registry and verify_consistency, call after call. *)
ConsistencySpec == RegistrySpecInit /\ [][ConsistencyNext]_vars

(* validate_schema_integrity applied to every schema. *)
SchemaSpecInit == SchemaInit /\ PipeIdle /\ HashIdle /\ FsIdle /\ AlignIdle /\ OthersIdle
SchemaSpec == SchemaSpecInit /\ [][SchemaNext]_vars

(* align applied to every data_map. *)
AlignSpecInit == AlignInit /\ PipeIdle /\ HashIdle /\ FsIdle /\ SchemaIdle /\ OthersIdle
AlignSpec == AlignSpecInit /\ [][AlignNext]_vars

(* validate applied to every frame and rules dictionary. *)
CoreIdle == PipeIdle /\ HashIdle /\ FsIdle /\ SchemaIdle /\ AlignIdle
ValidatorSpecInit == ValidatorInit /\ CoreIdle /\ ConfigIdle /\ TierIdle /\ StdIdle /\ SaveIdle /\ WindowIdle /\ EntryIdle
ValidatorSpec == ValidatorSpecInit /\ [][ValidatorNext]_vars

(* validate, call after call on one validator. *)
SummarySpec == ValidatorSpecInit /\ [][SummaryNext]_vars

(* The configuration entry points, call after call. *)
ConfigSpecInit == ConfigInit /\ CoreIdle /\ ValidatorIdle /\ TierIdle /\ StdIdle /\ SaveIdle /\ WindowIdle /\ EntryIdle
ConfigSpec == ConfigSpecInit /\ [][ConfigNext]_vars

(* Every pipeline of feature tiers on every aligned frame. *)
TierSpecInit == TierInit /\ CoreIdle /\ ValidatorIdle /\ ConfigIdle /\ StdIdle /\ SaveIdle /\ WindowIdle /\ EntryIdle
TierSpec == TierSpecInit /\ [][TierNext]_vars

(* Every input series through _standardize_frame of either aligner. *)
StdSpecInit == StdInit /\ CoreIdle /\ ValidatorIdle /\ ConfigIdle /\ TierIdle /\ SaveIdle /\ WindowIdle /\ EntryIdle
StdSpec == StdSpecInit /\ [][StdNext]_vars

(* One save after another on one storage engine. *)
SaveSpecInit == SaveInit /\ CoreIdle /\ ValidatorIdle /\ ConfigIdle /\ TierIdle /\ StdIdle /\ WindowIdle /\ EntryIdle
SaveSpec == SaveSpecInit /\ [][SaveNext]_vars

(* Every duration string through the window resolution of both tiers. *)
WindowSpecInit == WindowInit /\ CoreIdle /\ ValidatorIdle /\ ConfigIdle /\ TierIdle /\ StdIdle /\ SaveIdle /\ EntryIdle
WindowSpec == WindowSpecInit /\ [][WindowNext]_vars

(* One update_registry call after another, with every argument. *)
EntrySpecInit == EntryInit /\ CoreIdle /\ ValidatorIdle /\ ConfigIdle /\ TierIdle /\ StdIdle /\ SaveIdle /\ WindowIdle
EntrySpec == EntrySpecInit /\ [][EntryNext]_vars

-----------------------------------------------------------------------------
(* Claims about StandardPipeline, checked under Spec *)

Critical(c) == c.stage \in {"alignment", "validation", "transformation"}

(* C1 - Fail-fast: once the aligner, the validator or transformer i has    *)
(* returned an error or raised, no further collaborator (validator, later  *)
(* transformer, storage) is invoked in that run, the run has returned, and *)
(* the value it returned is an error carrying that stage's error.          *)
C1_FailFast ==
    \A k \in 1..Len(calls) :
        (Critical(calls[k]) /\ calls[k].outcome # "ok") =>
            /\ k = Len(calls)
            /\ pc = "idle"
            /\ is_err(ret)
            /\ ret.error = <<calls[k].stage, calls[k].i, calls[k].outcome>>

(* Transformer 1 of 2 raised in a pipeline that also has a storage. *)
C1_Witness ==
    /\ transformers = 2
    /\ storage
    /\ validator
    /\ Len(calls) > 0
    /\ calls[Len(calls)] = Call("transformation", 1, "raise")
    /\ pc = "idle"

RunCompleted == pc = "idle" /\ runs > 0

CriticalStagesSucceeded ==
    \A k \in 1..Len(calls) : Critical(calls[k]) => calls[k].outcome = "ok"

FinalFrame ==
    Frame(IF kwargs.skip_alignment THEN "raw" ELSE "aligned",
          [i \in 1..transformers |-> i])

(* C2 - Storage is best-effort: a run whose alignment, validation and      *)
(* transformers all succeeded returns Ok with the final in-memory frame,   *)
(* whether storage.save returned Ok, returned Err or raised.               *)
C2_StorageBestEffort ==
    (RunCompleted /\ CriticalStagesSucceeded) => ret = Ok(FinalFrame)

(* A completed run whose storage hand-off raised, after two transformers. *)
C2_Witness ==
    /\ RunCompleted
    /\ transformers = 2
    /\ Len(calls) > 0
    /\ calls[Len(calls)] = Call("storage", 0, "raise")
    /\ ret = Ok(FinalFrame)

-----------------------------------------------------------------------------
(* Claims about the step log and the skip flags, checked under Spec *)

Stages == <<"alignment", "validation", "transformation", "storage">>
StageNumber(name) == CHOOSE n \in 1..Len(Stages) : Stages[n] = name

(* C17: every stage the run executed or skipped has appended exactly one  *)
(* record to the step log, each status is one of success, failed, skipped *)
(* and error, and get_step_names() returns the names in the order         *)
(* alignment, validation, transformation, storage.                         *)
C17_OneRecordPerStage ==
    /\ [](\A i \in 1..Len(steps_log) :
            /\ steps_log[i].status \in {"success", "failed", "skipped", "error"}
            /\ \E n \in 1..Len(Stages) : Stages[n] = get_step_names[i])
    /\ [](\A i, j \in 1..Len(steps_log) :
            i < j => StageNumber(get_step_names[i]) < StageNumber(get_step_names[j]))
    /\ [][\A n \in 1..Len(Stages) :
            pc = Stages[n] =>
                IF pc' = pc
                THEN steps_log' = steps_log
                ELSE /\ Len(steps_log') = Len(steps_log) + 1
                     /\ SubSeq(steps_log', 1, Len(steps_log)) = steps_log
                     /\ steps_log'[Len(steps_log')].name = Stages[n]]_vars

(* A run that skipped validation, ran two transformers and whose storage  *)
(* raised has logged its four stages, one record each.                    *)
C17_Witness ==
    /\ RunCompleted
    /\ transformers = 2
    /\ get_step_names = Stages
    /\ steps_log[2].status = "skipped"
    /\ steps_log[4].status = "error"

(* C18: at the end of each run the step log holds only records appended   *)
(* during that run: the log is emptied when a run starts and only         *)
(* appended to until the next run starts.                                 *)
C18_StepLogLifecycle ==
    [][IF runs' # runs
       THEN steps_log' = <<>>
       ELSE \/ steps_log' = steps_log
            \/ /\ Len(steps_log') = Len(steps_log) + 1
               /\ SubSeq(steps_log', 1, Len(steps_log)) = steps_log]_vars

(* A second run that failed fast at alignment, after a first run that     *)
(* succeeded, has left the one record of its own.                         *)
C18_Witness ==
    /\ RunCompleted
    /\ runs = 2
    /\ is_ok(last_result)
    /\ is_err(ret)
    /\ get_step_names = <<"alignment">>
    /\ steps_log[1].status = "failed"

(* C19: with the validation skip flag the validator is never invoked and  *)
(* the validation step is recorded as skipped; and for each configured    *)
(* transformer a flag skips exactly that transformer while the remaining  *)
(* ones run in order.                                                      *)
C19_SkipFlags ==
    /\ kwargs.skip_validation =>
          /\ \A k \in 1..Len(calls) : calls[k].stage # "validation"
          /\ \A i \in 1..Len(steps_log) :
                steps_log[i].name = "validation" => steps_log[i].status = "skipped"
    /\ \A i \in kwargs.skip_transformers :
          \A k \in 1..Len(calls) : ~(calls[k].stage = "transformation" /\ calls[k].i = i)

-----------------------------------------------------------------------------
(* Claims about generate_feature_hash, checked under HashSpec *)

(* The key-to-value content of a dictionary: Python's dict equality, which *)
(* ignores insertion order at every depth.                                 *)
RECURSIVE Content(_)
Content(c) ==
    {[key |-> c[i].key, t |-> c[i].value.t, n |-> c[i].value.n, s |-> c[i].value.s,
      d |-> IF c[i].value.t = "dict" THEN Content(c[i].value.d) ELSE {}] : i \in 1..Len(c)}

SameContent(a, b) == Content(a) = Content(b)
BothHashed == hres[1].tag = "Hash" /\ hres[2].tag = "Hash"
AnsweredFromCacheAsFresh ==
    \A i \in {1, 2} :
        hres[i].tag = "Hash" => hres[i].hash = sha256(DumpsSorted(cfg[i]).str)

(* C8 as stated - Hash determinism: two configurations with the same       *)
(* key-to-value content hash identically whatever the insertion order, two *)
(* configurations that differ in any key or value hash differently, and a  *)
(* cached answer equals the freshly computed one.                          *)
C8_AsStated ==
    /\ BothHashed => (SameContent(cfg[1], cfg[2]) <=> hres[1].hash = hres[2].hash)
    /\ AnsweredFromCacheAsFresh

(* Every key, at any depth, is a str and every value is JSON-native. *)
RECURSIVE JsonPlain(_)
JsonPlain(c) ==
    \A i \in 1..Len(c) :
        /\ c[i].key.t = "str"
        /\ c[i].value.t # "obj"
        /\ c[i].value.t = "dict" => JsonPlain(c[i].value.d)

(* C8 amended - Hash determinism: same content in any insertion order      *)
(* gives the same hash; a cached answer equals the fresh one; and two      *)
(* configurations that differ in a key or value hash differently provided  *)
(* every key, at any depth, is a string and every value is JSON-native (a  *)
(* nested key 2 and a nested key "2", or a value and its str() form, hash  *)
(* identically).                                                           *)
C8_HashDeterminism ==
    /\ (BothHashed /\ SameContent(cfg[1], cfg[2])) => hres[1].hash = hres[2].hash
    /\ (BothHashed /\ JsonPlain(cfg[1]) /\ JsonPlain(cfg[2]) /\ ~SameContent(cfg[1], cfg[2]))
            => hres[1].hash # hres[2].hash
    /\ AnsweredFromCacheAsFresh

(* The same two entries inserted in opposite orders; the second answer     *)
(* came from the cache.                                                    *)
C8_Witness ==
    /\ cfg[1] = <<Item(PyStr(<<2>>), PyStr(<<1>>)), Item(PyStr(<<1, 0>>), PyInt(1))>>
    /\ cfg[2] = <<Item(PyStr(<<1, 0>>), PyInt(1)), Item(PyStr(<<2>>), PyStr(<<1>>))>>
    /\ BothHashed
    /\ hfrom[2] = "cache"
    /\ hres[1] = hres[2]

-----------------------------------------------------------------------------
(* Claims about the registry file *)

OnRecord == LoadRegistry(dir, files)
WholeEntries == {Ok(EntryOf(d)) : d \in attempted}

(* C3 - Atomic commit under crash (RegistrySpec): whatever step of         *)
(* update_registry a crash or a serialisation error interrupts,            *)
(* metadata.json is absent, or holds the complete entry that was on record *)
(* when the call began, or holds the complete new entry; and load_registry *)
(* never returns a partially written entry nor fails to parse the file.    *)
C3_AtomicCommit ==
    /\ OnRecord # LoadFailed
    /\ OnRecord \in {wbefore[1], Ok(EntryOf(wdata[1]))}
    /\ OnRecord \in {NotFound} \cup WholeEntries
    /\ rres \in {None, NotFound} \cup WholeEntries

(* The second update crashed after writing one chunk to the temp file; a   *)
(* load_registry afterwards returned the complete previous entry.          *)
C3_Witness ==
    /\ wres[1].tag = "Crashed"
    /\ woff[1] = 1
    /\ dir[TempFile] # 0
    /\ ~Parses(files[dir[TempFile]])
    /\ rres.tag = "Ok"
    /\ rres = wbefore[1]
    /\ rres # Ok(EntryOf(wdata[1]))

(* C4 - No partial reads under concurrency (ConcurrentSpec): every         *)
(* load_registry that succeeds returns exactly the complete entry written  *)
(* by one single update_registry call, never a mix of two.                 *)
C4_NoPartialReads == rres.tag = "Ok" => rres \in WholeEntries

-----------------------------------------------------------------------------
(* Claims about verify_consistency, checked under ConsistencySpec *)

Fingerprint(c) == sha256(DumpsSorted(c).str)

(* C10 - Consistency round-trip: after an update_registry call that        *)
(* succeeded with parameters p, verify_consistency(q) without an expected  *)
(* configuration returns Ok(fingerprint(q) = fingerprint(p)); with an      *)
(* expected configuration e it returns Ok(fingerprint(q) = fingerprint(e)) *)
(* whatever is on disk; with no record on disk and no expected             *)
(* configuration it returns an error. (For configurations that have a      *)
(* fingerprint.)                                                           *)
C10_ConsistencyRoundTrip ==
    (vrec.tag = "Verify" /\ Sortable(vrec.current)) =>
        CASE vrec.expected.given /\ Sortable(vrec.expected.params) ->
                 vrec.res = Ok(Fingerprint(vrec.current) = Fingerprint(vrec.expected.params))
          [] ~vrec.expected.given /\ OnRecord = NotFound ->
                 is_err(vrec.res)
          [] ~vrec.expected.given /\ wres[1].tag = "Ok" ->
                 vrec.res = Ok(Fingerprint(vrec.current)
                                  = Fingerprint(wdata[1].feature_params))
          [] OTHER -> TRUE

-----------------------------------------------------------------------------
(* Claims about validate_schema_integrity, checked under SchemaSpec *)

(* The declared type is the 64-bit float type. *)
Is64BitFloat(dtype) == dtype = Float64

(* C9 - Schema enforcement: validate_schema_integrity returns an error if  *)
(* and only if some column whose name starts with a sensitive prefix is    *)
(* declared with a type other than 64-bit float; columns without a         *)
(* sensitive prefix never cause rejection.                                 *)
C9_SchemaEnforcement ==
    sres # None =>
        (is_err(sres) <=>
            \E i \in 1..Len(schema_dict) :
                /\ is_sensitive(schema_dict[i].col)
                /\ ~Is64BitFloat(schema_dict[i].dtype))

-----------------------------------------------------------------------------
(* Claims about HybridAsofAligner.align, checked under AlignSpec *)

Anchor == AnchorSymbol(akwargs)
AnchorTimestamps == {data_map[Anchor][i].timestamp : i \in 1..Len(data_map[Anchor])}
Followers == {symbols[i] : i \in 1..Len(symbols)} \ {Anchor}
Returned == unwrap(aligned).rows

ExpectedCells(s, t) ==
    LET rows == data_map[s]
        before == {i \in 1..Len(rows) : rows[i].timestamp <= t}
        latest == {i \in before : \A j \in before : rows[j].timestamp <= rows[i].timestamp}
    IN IF \E i \in latest : t - rows[i].timestamp <= Tolerance
       THEN {IF rows[i].null THEN Null ELSE Value(s, i) : i \in latest}
       ELSE {Null}

Matched(s, t) == \E i \in 1..Len(data_map[s]) :
    /\ data_map[s][i].timestamp <= t
    /\ t - data_map[s][i].timestamp <= Tolerance

(* C7 - Strict complete-case alignment: with strict=true no row of the     *)
(* returned frame has a null in a joined follower column, and every anchor *)
(* row for which every follower matched within tolerance is kept.          *)
C7_StrictCompleteCase ==
    (aligned # None /\ is_ok(aligned) /\ StrictMode(akwargs)) =>
        /\ \A k \in 1..Len(Returned) : \A s \in Followers :
              ~Returned[k].cells[Col("close", s, "")].null
        /\ \A t \in AnchorTimestamps :
              (\A s \in Followers : Matched(s, t)) =>
                  \E k \in 1..Len(Returned) : Returned[k].timestamp = t

-----------------------------------------------------------------------------
(* Claims about PolarsValidator, checked under ValidatorSpec and SummarySpec *)

Called == vclock > 0

(* The phases in the order the claims give them, and those the active     *)
(* rules switch on.                                                        *)
Phases == <<"schema", "statistics", "sorted", "ohlc">>
SwitchedOn(p) ==
    /\ p = "sorted" => active_rules.check_sorted
    /\ p = "ohlc" => active_rules.check_ohlc_consistency
EnabledPhases == SelectSeq(Phases, SwitchedOn)

(* What each phase finds on the frame of the latest call, taken alone. *)
PhaseResult(p) ==
    CASE p = "schema" -> ValidateSchema(vdata, active_rules)
      [] p = "statistics" ->
            IF vdata.collect = "raises" THEN Err("Validator System Error")
            ELSE AnalyzeStats(CollectStats(vdata, active_rules), active_rules)
      [] p = "sorted" -> ValidateSorting(vdata)
      [] p = "ohlc" -> ValidatePriceConsistency(vdata)

FirstFailing ==
    {i \in 1..Len(EnabledPhases) :
        /\ is_err(PhaseResult(EnabledPhases[i]))
        /\ \A j \in 1..(i - 1) : is_ok(PhaseResult(EnabledPhases[j]))}

Range(seq) == {seq[i] : i \in 1..Len(seq)}

(* C11: validate evaluates the schema phase, then the statistics phase,    *)
(* then sortedness, then OHLC consistency, and returns the error of the    *)
(* first phase that fails; a failing schema phase triggers no table scan,  *)
(* and after a failing statistics phase neither the sortedness nor the     *)
(* OHLC check is evaluated.                                                *)
C11_PhaseOrder ==
    Called =>
        /\ Len(evaluated) >= 1
        /\ Len(evaluated) <= Len(EnabledPhases)
        /\ evaluated = SubSeq(EnabledPhases, 1, Len(evaluated))
        /\ IF FirstFailing = {}
           THEN is_ok(vret) /\ evaluated = EnabledPhases
           ELSE \A i \in FirstFailing :
                   vret = PhaseResult(EnabledPhases[i]) /\ Len(evaluated) = i
        /\ is_err(PhaseResult("schema")) => scans = 0
        /\ is_err(PhaseResult("statistics")) =>
               "sorted" \notin Range(evaluated) /\ "ohlc" \notin Range(evaluated)

(* A frame that would fail the schema, statistics and sortedness phases    *)
(* was answered with the schema error, unscanned.                          *)
C11_Witness ==
    /\ Called
    /\ is_err(PhaseResult("schema"))
    /\ is_err(PhaseResult("statistics"))
    /\ active_rules.check_sorted /\ is_err(PhaseResult("sorted"))
    /\ vret = PhaseResult("schema")
    /\ evaluated = <<"schema">>
    /\ scans = 0

(* C12: after any sequence of validate calls the summary describes the     *)
(* most recent call, and its status is "passed" exactly when that call     *)
(* returned Ok.                                                            *)
C12_SummaryReflectsLastRun ==
    Called =>
        /\ last_summary.timestamp = vclock
        /\ (last_summary.status = "passed") <=> is_ok(vret)

(* The columns whose nulls the statistics phase counts, and their counts,  *)
(* read from the frame.                                                    *)
CheckedColumns ==
    {c \in vdata.cols : \/ c \in active_rules.required_columns
                        \/ c \in {"open", "high", "low", "close", "volume"}}
NullCount(c) == IF c = vdata.null_col THEN vdata.null_count ELSE 0
StatisticsFailed == is_err(vret) /\ evaluated = <<"schema", "statistics">>

(* C13: on a frame that passes the schema phase, the statistics phase      *)
(* fails exactly when row_count < min_rows or some checked column has      *)
(* null_count / row_count strictly above max_null_pct; a ratio equal to    *)
(* max_null_pct and a row count equal to min_rows pass.                    *)
C13_StatisticsThresholds ==
    Called /\ is_ok(PhaseResult("schema")) /\ vdata.collect = "ok" =>
        (StatisticsFailed <=>
            \/ vdata.row_count < active_rules.min_rows
            \/ \E c \in CheckedColumns :
                  NullCount(c) * 100 > active_rules.max_null_pct * vdata.row_count)

(* A frame with exactly min_rows rows and a checked column whose null      *)
(* ratio is exactly max_null_pct passed the statistics phase.              *)
C13_Witness ==
    /\ Called
    /\ is_ok(PhaseResult("schema")) /\ vdata.collect = "ok"
    /\ vdata.row_count = active_rules.min_rows
    /\ \E c \in CheckedColumns :
          /\ NullCount(c) > 0
          /\ NullCount(c) * 100 = active_rules.max_null_pct * vdata.row_count
    /\ ~StatisticsFailed
    /\ Len(evaluated) > 2

(* C14: the rule set a validate call uses is the default rule set with     *)
(* exactly the recognised keys of the override replaced by the override's  *)
(* values, unknown keys having no effect, and the default rule set is not  *)
(* changed by the call.                                                    *)
C14_RuleMerging ==
    /\ [](Called => active_rules = Updated(default_rules, voverrides))
    /\ [][default_rules' = default_rules]_vars

-----------------------------------------------------------------------------
(* Claims about configuration, checked under ConfigSpec *)

(* A rule value outside its documented range was given. *)
InvalidValue(kw) ==
    \/ \E v \in kw["min_rows"] : v < 1
    \/ \E v \in kw["max_null_pct"] : v < 0 \/ v > 100
    \/ \E v \in kw["min_price"] : v < 0
    \/ {} \in kw["required_columns"]

(* A tolerance with one of the unit suffixes the aligner knows. *)
SupportedTolerance(tolerance) ==
    \E unit \in {<<"m", "s">>, <<"s">>, <<"m">>, <<"h">>} : EndsWith(tolerance, unit)

InvalidConfig ==
    \/ /\ centry \in {"ValidationRules", "from_dict", "create_validator", "validate"}
       /\ cinput.is_dict
       /\ InvalidValue(cinput.rules)
    \/ /\ centry = "get_aligner"
       /\ cinput.join_strategy = {}
       /\ \/ cinput.method \notin {"asof", "exact"}
          \/ cinput.method = "asof" /\ ~SupportedTolerance(cinput.tolerance)

IsError(out) == "tag" \in DOMAIN out /\ out.tag \in {"Err", "Raises"}

(* C15: an invalid rule value at construction or as a per-call override   *)
(* to validate, an unknown alignment method name and an unsupported       *)
(* tolerance format each result in an error returned to the caller; none  *)
(* is silently ignored or replaced by a previous or default value.        *)
C15_ConfigurationErrorsSurfaced == InvalidConfig => IsError(cout)

(* C16: every ValidationRules instance, however produced (constructor,    *)
(* from_dict, preset factory, with_overrides), has a non-empty            *)
(* required_columns that contains "timestamp".                            *)
C16_RequiredColumns ==
    IsRules(rules_obj) =>
        /\ rules_obj.required_columns # {}
        /\ "timestamp" \in rules_obj.required_columns

-----------------------------------------------------------------------------
(* Claims about the feature tiers, checked under TierSpec *)

Applied == IF tpos > 0 THEN tpipeline[tpos] ELSE "none"
WithPrefix(frame, prefix) == {c \in frame.cols : Len(c) > 1 /\ c[1] = prefix}

(* The close_ columns the Returns tier is to work on: those declared, or  *)
(* all of them.                                                            *)
TargetCloseColumns(frame) ==
    IF tparams.target_columns = {} THEN WithPrefix(frame, "close")
    ELSE WithPrefix(frame, "close") \cap tparams.target_columns

LacksPrerequisite ==
    \/ Applied = "returns" /\ TargetCloseColumns(tbefore) = {}
    \/ Applied = "microstructure" /\ WithPrefix(tbefore, "ret") = {}
    \/ /\ Applied = "stationarity"
       /\ \/ <<"log", tparams.anchor_symbol>> \notin tbefore.cols
          \/ Cardinality(WithPrefix(tbefore, "log")) < 2

(* A later tier stands in the pipeline with no Returns tier before it. *)
BeforeItsPrerequisite ==
    /\ Applied \in {"microstructure", "stationarity"}
    /\ \A j \in 1..(tpos - 1) : tpipeline[j] # "returns"

(* C20: the Returns tier on a frame with no target close_ column, the     *)
(* Microstructure tier on a frame with no ret_ column and the             *)
(* Stationarity tier on a frame lacking the anchor's log_ column or with  *)
(* fewer than two log_ columns each return an error and add no feature    *)
(* column; a pipeline that places a later tier before its prerequisite    *)
(* tier fails at that tier.                                                *)
C20_TierPrerequisites ==
    (LacksPrerequisite \/ BeforeItsPrerequisite) =>
        /\ is_err(tres)
        /\ tdata = tbefore

(* The Microstructure tier, placed before the Returns tier, was given an  *)
(* aligned frame with close_ columns and failed.                          *)
C20_Witness ==
    /\ tpipeline = <<"microstructure", "returns">>
    /\ tpos = 1
    /\ WithPrefix(tbefore, "close") # {}
    /\ is_err(tres)
    /\ tdata = tbefore

-----------------------------------------------------------------------------
(* Further claims about HybridAsofAligner.align, checked under AlignSpec *)

ReturnedColumns == unwrap(aligned).columns

(* C21 - Suffix invariant: for every symbol S other than the anchor and    *)
(* every non-timestamp column C of S's source frame the aligned frame has  *)
(* a column C_S; timestamp is a single column that is never suffixed; and  *)
(* no two joined columns collide in name (no right-hand column of a join   *)
(* meets a name that is already taken).                                    *)
C21_SuffixInvariant ==
    (aligned # None /\ is_ok(aligned)) =>
        /\ \A s \in Followers : Col("close", s, "") \in ReturnedColumns
        /\ \A c \in ReturnedColumns : c[1] # "timestamp"
        /\ \A c \in ReturnedColumns : c[3] = ""

-----------------------------------------------------------------------------
(* Claims about _standardize_frame, checked under StdSpec *)

StdTimestamps == {std_input[i].timestamp : i \in 1..Len(std_input)}

(* The input row that occurs last among those with timestamp t. *)
LastOccurrence(t) ==
    CHOOSE i \in 1..Len(std_input) :
        /\ std_input[i].timestamp = t
        /\ \A j \in 1..Len(std_input) : std_input[j].timestamp = t => j <= i

(* C22 - Standardisation invariant: under either strategy the standardised *)
(* series has strictly increasing timestamps and holds, for each timestamp *)
(* of the input, the row that occurs last with it in the input order.      *)
C22_Standardisation ==
    std_out # None =>
        /\ \A i \in 1..(Len(std_out.rows) - 1) :
              std_out.rows[i].timestamp < std_out.rows[i + 1].timestamp
        /\ \A t \in StdTimestamps : \E k \in 1..Len(std_out.rows) :
              /\ std_out.rows[k].timestamp = t
              /\ std_out.rows[k] = InputFrame(StdSymbol, std_input).rows[LastOccurrence(t)]


SymbolSet == {symbols[i] : i \in 1..Len(symbols)}

(* align has nothing to build on: no input, an anchor that is not a key,   *)
(* or an anchor that cannot be standardised.                               *)
AnchorFails ==
    \/ symbols = <<>>
    \/ Anchor \notin SymbolSet
    \/ Anchor \in no_timestamp

FailingFollowers == {s \in SymbolSet \ {Anchor} : s \in no_timestamp}

(* C23 - Partial success of the Hybrid-Asof strategy: when a follower      *)
(* fails to standardise (its frame has no timestamp column) align still    *)
(* returns Ok with a frame built from the anchor and the remaining         *)
(* followers and holding no column of the failing symbol; when the anchor  *)
(* fails to standardise, the input map is empty or the named anchor is not *)
(* a key of the map, align returns an error.                               *)
C23_PartialSuccess ==
    aligned # None =>
        /\ AnchorFails => is_err(aligned)
        /\ (~AnchorFails /\ strategy = "backward" /\ FailingFollowers # {}) =>
              /\ is_ok(aligned)
              /\ \A c \in ReturnedColumns : c[2] \notin FailingFollowers
              /\ \A s \in SymbolSet \ (FailingFollowers \cup {Anchor}) :
                    Col("close", s, "") \in ReturnedColumns

-----------------------------------------------------------------------------
(* Further claims about configuration, checked under ConfigSpec *)

Direction == JoinStrategy(cinput.join_strategy)

(* C24 - Directional strategy selection: creating an asof aligner succeeds *)
(* for the direction names "backward" (the default) and "forward" and      *)
(* yields a configuration error for any other name.                        *)
C24_DirectionalStrategy ==
    (centry = "get_aligner" /\ cinput.method = "asof") =>
        IF Direction \in {"backward", "forward"}
        THEN is_ok(cout) /\ unwrap(cout).strategy = Direction
        ELSE IsError(cout)

-----------------------------------------------------------------------------
(* Further claims about generate_feature_hash, checked under HashSpec *)

(* C25 - Explicit results everywhere: every public operation returns an Ok *)
(* or Err value for every input and every internal failure; none lets an   *)
(* exception escape to its caller. Here: generate_feature_hash.            *)
C25_ExplicitResults ==
    \A i \in DOMAIN hres : hres[i] # None => hres[i] # Raised

-----------------------------------------------------------------------------
(* Claims about ParquetStorageEngine.save, checked under SaveSpec *)

Saved == save_n > 0
Made(name, outcome) == \E i \in 1..Len(save_trace) : save_trace[i] = SaveCall(name, outcome)
WriteFailed == Made("write_parquet", "raise")
CommitFailed == Made("update_registry", "Err")

(* C26 - Storage and registry errors are reported: whenever the data write *)
(* or the registry commit fails during the storage hand-off, save returns  *)
(* an error and the pipeline's storage step record has status failed or    *)
(* error, never success.                                                   *)
C26_StorageErrorsReported ==
    (Saved /\ (WriteFailed \/ CommitFailed)) =>
        /\ is_err(save_ret)
        /\ StorageStepStatus(save_ret) \in {"failed", "error"}

Position(name) == CHOOSE i \in 1..Len(save_trace) : save_trace[i].call = name
Reached(name) == \E i \in 1..Len(save_trace) : save_trace[i].call = name

(* C27 - Storage hand-off ordering: in every save call schema enforcement  *)
(* runs before any data is written and the registry commit runs only after *)
(* the data write has completed; when schema enforcement rejects the frame *)
(* no data is written and the registry entry is unchanged, and when the    *)
(* data write fails the registry entry is unchanged.                       *)
C27_HandOffOrdering ==
    Saved =>
        /\ save_trace[1].call = "validate_schema_integrity"
        /\ lake # lake_before => Reached("write_parquet")
        /\ Reached("write_parquet") =>
              /\ Position("validate_schema_integrity") < Position("write_parquet")
              /\ Made("validate_schema_integrity", "Ok")
        /\ Reached("update_registry") =>
              /\ Made("write_parquet", "ok")
              /\ Position("write_parquet") < Position("update_registry")
              /\ [save |-> save_n, complete |-> TRUE] \in lake
        /\ is_err(ValidateSchemaIntegrityResult(save_arg.schema)) =>
              /\ lake = lake_before
              /\ registry_entry = entry_before
        /\ WriteFailed => registry_entry = entry_before
        /\ registry_entry # entry_before => Made("update_registry", "Ok")

(* A second save whose frame is rejected by schema enforcement, after a    *)
(* first one that wrote and committed: nothing was written and the entry   *)
(* of the first save is still on record.                                   *)
C27_Witness ==
    /\ save_n = 2
    /\ is_err(ValidateSchemaIntegrityResult(save_arg.schema))
    /\ save_trace = <<SaveCall("validate_schema_integrity", "err")>>
    /\ entry_before.save = 1
    /\ registry_entry = entry_before
    /\ lake = lake_before
    /\ lake # {}

-----------------------------------------------------------------------------
(* Claims about window resolution, checked under WindowSpec *)

(* The string is the number n followed by the unit. *)
Duration(n, unit) == window_str = n \o unit

(* C28 - Window resolution: the Microstructure tier and the Stationarity   *)
(* tier resolve every duration string to the same row count: n minutes to  *)
(* n, n hours to 60n, n days to 1440n, n weeks to 10080n, and a string     *)
(* that cannot be parsed to the default of 60 rows.                        *)
C28_WindowResolution ==
    window_rows # None =>
        /\ window_rows.microstructure = window_rows.stationarity
        /\ \A n \in WindowNumbers \ {<<>>} :
              /\ Duration(n, <<"m">>) => window_rows.microstructure = IntOf(n)
              /\ Duration(n, <<"h">>) => window_rows.microstructure = 60 * IntOf(n)
              /\ Duration(n, <<"d">>) => window_rows.microstructure = 1440 * IntOf(n)
              /\ Duration(n, <<"w">>) => window_rows.microstructure = 10080 * IntOf(n)
        /\ DigitsOf(window_str) = <<>> => window_rows.microstructure = 60

-----------------------------------------------------------------------------
(* Claims about the registry entry, checked under EntrySpec *)

Ascending(columns) ==
    \A i \in 1..(Len(columns) - 1) : StrLessEq(columns[i], columns[i + 1])

(* C29 - Registry entry invariant: after any sequence of update_registry   *)
(* calls, whenever load_registry succeeds the entry it returns is the one  *)
(* written by the most recent successful commit and has column_count equal *)
(* to the number of entries in columns, columns sorted ascending, and      *)
(* feature_hash equal to generate_feature_hash of its own feature_params.  *)
C29_RegistryEntry ==
    entry_file # NoRecord =>
        /\ entry_file = entry_last
        /\ entry_file.column_count = Len(entry_file.columns)
        /\ Ascending(entry_file.columns)
        /\ entry_file.feature_hash =
               GenerateFeatureHash({}, entry_file.feature_params).res.hash

-----------------------------------------------------------------------------
(* Further claims about StandardPipeline, checked under Spec *)

(* C30 - Last-run observability: after any sequence of runs on one         *)
(* pipeline instance, get_last_result() equals the value the most recent   *)
(* call returned and get_execution_stats() carries the status of that      *)
(* call: success when it returned Ok, a non-success status when it         *)
(* returned an error, also when it ended by fail-fast.                     *)
C30_LastRunObservability ==
    RunCompleted =>
        /\ last_result = ret
        /\ is_ok(ret) => execution_stats = "success"
        /\ is_err(ret) => execution_stats \notin {"success", "unset"}
====
